---- MODULE Spec2Model ----
(***************************************************************************)
(* A model of owid-catalog-py: the dataset directory (datasets.py), the    *)
(* catalog search, the remote catalog bootstrap with its process-wide      *)
(* cache and the load of an index row (catalogs.py), the Table in memory   *)
(* and on disk (tables.py) and arithmetic on Variables (variables.py).     *)
(*                                                                         *)
(* A Python str is a sequence of one-character strings, so that the        *)
(* snake_case regex, the substring test and the sorting of file names and  *)
(* versions are computed character by character as the code computes them. *)
(* The Python value None of an Optional[str] is the one-element sequence   *)
(* None below, whose element is no character.                              *)
(***************************************************************************)
EXTENDS Integers, Sequences, FiniteSets, TLC

VARIABLES
    exists,     \* datasets.py: the dataset path is a directory on disk
    files,      \* datasets.py: file name -> content, the files of that directory
    ds,         \* datasets.py: the Dataset object in hand (its in-memory metadata)
    call,       \* the last operation on the dataset and its outcome
    frame,      \* catalogs.py: CatalogMixin.frame, the index rows in order
    channels,   \* catalogs.py: CatalogMixin.channels, the channels loaded
    ccall,      \* the last search on the catalog, its arguments and outcome
    REMOTE_CATALOG,         \* catalogs.py: the module's cached RemoteCatalog
    remote_format_version,  \* format_version in the published catalog.meta.json
    pc,         \* where the running module-level find stands
    cur,        \* the running call: its arguments and the catalog it constructs
    reads,      \* the files the running call has requested from the remote
    requested,  \* the channels asked for by the calls that returned
    rcall,      \* the last module-level find that ended, and its outcome
    ld,         \* catalogs.py: the CatalogSeries.load that is running
    tmpdir,     \* the temporary directory of that load and the files in it
    lcall,      \* the last CatalogSeries.load that ended, and its outcome
    tab,        \* tables.py: the Table in hand
    tcall,      \* the last operation on that table and its outcome
    operands,   \* variables.py: the Variables A and B in hand
    vcall,      \* the last operation on Variables and its outcome
    UPDATE_PROCESSING_LOG,  \* variables.py: the module's switch
    column,     \* the Variable read from the column the last result was assigned to
    nvar,       \* variables.py: a Variable whose name is set, with its _fields
    ncall,      \* the last assignment to that Variable's name
    src_t,      \* tables.py: the table metadata is copied from
    dst_t,      \* tables.py: the copy, or the table metadata is copied to
    shared,     \* the lists and dicts of dst_t's metadata that are src_t's own objects
    origin,     \* the operation that made dst_t's metadata
    pcall,      \* the last operation on the two tables and its outcome
    tree,       \* catalogs.py: the folders below the catalog's path
    index_files,   \* the files catalog-<channel>.<format> in the catalog's path
    catalog_meta,  \* the file catalog.meta.json, when there is one
    local,      \* the LocalCatalog in use, when one was constructed
    changed,    \* the dataset folders changed on disk since they were last indexed
    changes,    \* how many changes were made on disk
    kcall       \* the last operation on the local catalog and its outcome

dsVars == <<exists, files, ds, call>>

catVars == <<frame, channels, ccall>>

remoteVars ==
    <<REMOTE_CATALOG, remote_format_version, pc, cur, reads, requested, rcall>>

loadVars == <<ld, tmpdir, lcall>>

tabVars == <<tab, tcall>>

varVars == <<operands, vcall, UPDATE_PROCESSING_LOG, column>>

nameVars == <<nvar, ncall>>

copyVars == <<src_t, dst_t, shared, origin, pcall>>

localVars == <<tree, index_files, catalog_meta, local, changed, changes, kcall>>

vars ==
    <<exists, files, ds, call, frame, channels, ccall,
      REMOTE_CATALOG, remote_format_version, pc, cur, reads, requested, rcall,
      ld, tmpdir, lcall, tab, tcall, operands, vcall,
      UPDATE_PROCESSING_LOG, column, nvar, ncall,
      src_t, dst_t, shared, origin, pcall,
      tree, index_files, catalog_meta, local, changed, changes, kcall>>

----------------------------------------------------------------------------
(* Strings *)

None == <<"None">>

NL == "\n"

LowerChars ==
    {"a", "b", "c", "d", "e", "f", "g", "h", "i", "j", "k", "l", "m",
     "n", "o", "p", "q", "r", "s", "t", "u", "v", "w", "x", "y", "z"}

DigitChars == {"0", "1", "2", "3", "4", "5", "6", "7", "8", "9"}

\* The characters the model's strings use, in ASCII order (sorted() and
\* sort_values() compare strings code point by code point).
Ascii ==
    <<NL, ".", "/", "0", "1", "2", "3", "4", "5", "6", "7", "8", "9",
      "A", "B", "C", "D", "E", "F", "G", "H", "I", "J", "K", "L", "M",
      "N", "O", "P", "Q", "R", "S", "T", "U", "V", "W", "X", "Y", "Z", "_",
      "a", "b", "c", "d", "e", "f", "g", "h", "i", "j", "k", "l", "m",
      "n", "o", "p", "q", "r", "s", "t", "u", "v", "w", "x", "y", "z">>

Ord(ch) == CHOOSE i \in 1..Len(Ascii) : Ascii[i] = ch

Min(a, b) == IF a <= b THEN a ELSE b

\* Python's s < t on str: the first differing character decides, a proper
\* prefix is smaller.
StrLess(s, t) ==
    \/ \E i \in 1..Min(Len(s), Len(t)) :
          /\ \A j \in 1..(i - 1) : s[j] = t[j]
          /\ Ord(s[i]) < Ord(t[i])
    \/ /\ Len(s) < Len(t)
       /\ \A j \in 1..Len(s) : s[j] = t[j]

\* Python truthiness of an Optional[str]: None and "" are falsy.
Truthy(s) == s # None /\ s # <<>>

----------------------------------------------------------------------------
(* utils.validate_underscore *)

\* re.match("^[a-z_][a-z0-9_]*$", name): "$" matches at the end of the string
\* and also just before a newline that ends the string.
ReMatchSnake(name) ==
    /\ Len(name) >= 1
    /\ name[1] \in LowerChars \cup {"_"}
    /\ \E n \in 1..Len(name) :
          /\ \A i \in 2..n : name[i] \in LowerChars \cup DigitChars \cup {"_"}
          /\ \/ n = Len(name)
             \/ n = Len(name) - 1 /\ name[Len(name)] = NL

\* validate_underscore raises NameError
ValidateRaises(name) == name # None /\ ~ReMatchSnake(name)

----------------------------------------------------------------------------
(* meta.py: DatasetMeta and TableMeta *)

DatasetMeta(namespace, short_name) ==
    [namespace |-> namespace, short_name |-> short_name, is_public |-> TRUE]

\* The back-reference TableMeta.dataset when it is not set (Python None).
NoDataset == [unset |-> TRUE]

\* pruned_json: the public fields whose value is not None, [] or {}.
\* is_public is a bool and is never pruned.
ToDict(m) ==
    [k \in {"is_public"} \cup {f \in {"namespace", "short_name"} : m[f] # None}
        |-> m[k]]

\* DatasetMeta.from_dict: a missing key takes the declared default.
FromDict(d) ==
    [namespace  |-> IF "namespace" \in DOMAIN d THEN d["namespace"] ELSE None,
     short_name |-> IF "short_name" \in DOMAIN d THEN d["short_name"] ELSE None,
     is_public  |-> IF "is_public" \in DOMAIN d THEN d["is_public"] ELSE TRUE]

\* dataclasses_json's recursive conversion of a nested dataclass: every field,
\* None values included (the pruning wraps only the outermost to_dict).
AsDict(m) == [k \in DOMAIN m |-> m[k]]

----------------------------------------------------------------------------
(* tables.py: what Dataset.add needs of a Table *)

Table(short_name, columns, index_names) ==
    [short_name |-> short_name, columns |-> columns,
     index_names |-> index_names, dataset |-> NoDataset]

Range(s) == {s[i] : i \in 1..Len(s)}

\* Table.primary_key: [n for n in self.index.names if n]
primary_key(t) == SelectSeq(t.index_names, Truthy)

\* Table.all_columns: filter(None, index.names + columns)
all_columns(t) == SelectSeq(t.index_names \o t.columns, Truthy)

\* Table._get_fields_as_dict: one entry per current column; the tables of this
\* model carry empty VariableMeta, whose pruned dict is {}.
EmptyDict == [k \in {} |-> 0]

FieldsAsDict(t) == [c \in Range(all_columns(t)) |-> EmptyDict]

\* TableMeta.to_dict (pruned): short_name, dataset and primary_key when set.
TableToDict(t) ==
    LET keys == (IF t.short_name # None THEN {"short_name"} ELSE {})
                \cup (IF t.dataset # NoDataset THEN {"dataset"} ELSE {})
                \cup (IF primary_key(t) # <<>> THEN {"primary_key"} ELSE {})
    IN  [k \in keys |->
            CASE k = "short_name"  -> t.short_name
              [] k = "dataset"     -> AsDict(t.dataset)
              [] k = "primary_key" -> primary_key(t)]

SetKey(d, key, v) == [k \in DOMAIN d \cup {key} |-> IF k = key THEN v ELSE d[k]]

\* Table._save_metadata: the sidecar JSON
SidecarContent(t) ==
    SetKey(SetKey(TableToDict(t), "primary_key", primary_key(t)),
           "fields", FieldsAsDict(t))

\* to_csv / to_feather: the data file holds the index columns and the data
\* columns (feather after reset_index, csv with index=True).
DataContent(t, format) ==
    [kind |-> format, columns |-> primary_key(t) \o t.columns]

\* to_parquet: the metadata is embedded in the schema of the file itself.
ParquetContent(t) ==
    [kind |-> "parquet", columns |-> primary_key(t) \o t.columns,
     owid_table |-> TableToDict(t), owid_fields |-> FieldsAsDict(t),
     primary_key |-> primary_key(t)]

----------------------------------------------------------------------------
(* datasets.py: the dataset directory *)

ALLOWED_FORMATS == {"csv", "feather", "parquet"}

DEFAULT_FORMATS == <<"feather", "parquet">>

FileName(stem, ext) == [stem |-> stem, ext |-> ext]

IndexFile == FileName(<<"i", "n", "d", "e", "x">>, "json")

StrayFile == FileName(<<"h", "a", "l", "l", "o">>, "txt")

EmptyDir == [f \in {} |-> 0]

WriteFile(fs, name, content) ==
    [f \in DOMAIN fs \cup {name} |-> IF f = name THEN content ELSE fs[f]]

\* Table.to_feather / to_parquet / to_csv under the dataset's folder
WriteTable(fs, t, format) ==
    LET data    == FileName(t.short_name, format)
        sidecar == FileName(t.short_name, "meta.json")
    IN  IF format = "parquet"
        THEN WriteFile(fs, data, ParquetContent(t))
        ELSE WriteFile(WriteFile(fs, data, DataContent(t, format)),
                       sidecar, SidecarContent(t))

\* to_feather refuses a table whose index names overlap its columns
FeatherRaises(t) ==
    primary_key(t) # <<>> /\ Range(t.index_names) \cap Range(t.columns) # {}

\* The loop of Dataset.add over formats[i..]: it stops at the first format
\* that raises, leaving what the earlier formats wrote.
RECURSIVE AddLoop(_, _, _, _)
AddLoop(fs, t, formats, i) ==
    IF i > Len(formats) THEN [files |-> fs, result |-> "ok"]
    ELSE IF formats[i] \notin ALLOWED_FORMATS
         THEN [files |-> fs, result |-> "Exception"]
    ELSE IF ~Truthy(t.short_name)   \* TableMeta.checked_name
         THEN [files |-> fs, result |-> "Exception"]
    ELSE IF formats[i] = "feather" /\ FeatherRaises(t)
         THEN [files |-> fs, result |-> "ValueError"]
    ELSE AddLoop(WriteTable(fs, t, formats[i]), t, formats, i + 1)

\* The names Dataset.add validates, in the order it validates them.
AddNames(t) == <<t.short_name>> \o t.columns \o t.index_names

AddValidationRaises(t) == \E i \in 1..Len(AddNames(t)) : ValidateRaises(AddNames(t)[i])

NoTable == [unset |-> TRUE]

\* The last operation: its name, how it ended ("ok" or the exception raised),
\* the table handed to add as the call left it, and whether save warned.
Call(op, result, table, warned) ==
    [op |-> op, result |-> result, table |-> table, warned |-> warned]

\* create_empty without the index.json test in front of shutil.rmtree
create_empty_unchecked(metadata) ==
    LET m == IF metadata = NoDataset THEN DatasetMeta(None, None) ELSE metadata
        fs == WriteFile(EmptyDir, IndexFile, ToDict(m))
    IN  /\ exists' = TRUE
        /\ files' = fs
        /\ ds' = [open |-> TRUE, metadata |-> FromDict(fs[IndexFile])]
        /\ call' = Call("create_empty", "ok", NoTable, FALSE)

\* Dataset.create_empty(path, metadata)
create_empty(metadata) ==
    IF exists /\ IndexFile \notin DOMAIN files
    THEN /\ call' = Call("create_empty", "Exception", NoTable, FALSE)
         /\ UNCHANGED <<exists, files, ds>>
    ELSE LET m == IF metadata = NoDataset THEN DatasetMeta(None, None) ELSE metadata
             fs == WriteFile(EmptyDir, IndexFile, ToDict(m))
         IN  /\ exists' = TRUE
             /\ files' = fs
             /\ ds' = [open |-> TRUE, metadata |-> FromDict(fs[IndexFile])]
             /\ call' = Call("create_empty", "ok", NoTable, FALSE)

\* Dataset(path): DatasetMeta.load(index.json)
Open ==
    IF exists /\ IndexFile \in DOMAIN files
    THEN /\ ds' = [open |-> TRUE, metadata |-> FromDict(files[IndexFile])]
         /\ call' = Call("open", "ok", NoTable, FALSE)
         /\ UNCHANGED <<exists, files>>
    ELSE /\ call' = Call("open", "FileNotFoundError", NoTable, FALSE)
         /\ UNCHANGED <<exists, files, ds>>

\* dataset.metadata = m, or an assignment to one of its fields
SetMetadata(m) ==
    /\ ds.open
    /\ ds' = [ds EXCEPT !.metadata = m]
    /\ call' = Call("set_metadata", "ok", NoTable, FALSE)
    /\ UNCHANGED <<exists, files>>

\* Dataset.add(table, formats)
add(t, formats) ==
    /\ ds.open
    /\ IF AddValidationRaises(t)
       THEN /\ call' = Call("add", "NameError", t, FALSE)
            /\ UNCHANGED <<exists, files, ds>>
       ELSE LET stamped == [t EXCEPT !.dataset = ds.metadata]
                r == AddLoop(files, stamped, formats, 1)
            IN  /\ files' = r.files
                /\ call' = Call("add", r.result, stamped, FALSE)
                /\ UNCHANGED <<exists, ds>>

IsSidecar(name) == name.ext = "meta.json"

\* _update_table_metadata that rewrites no sidecar
UpdateTableMetadata_skipped(fs, dataset_meta) == fs

\* Dataset._update_table_metadata: every *.meta.json gets the dataset's dict
UpdateTableMetadata(fs, dataset_meta) ==
    [f \in DOMAIN fs |->
        IF IsSidecar(f) THEN SetKey(fs[f], "dataset", dataset_meta) ELSE fs[f]]

\* Dataset.save()
save ==
    /\ ds.open
    /\ IF ~Truthy(ds.metadata.short_name)
       THEN /\ call' = Call("save", "AssertionError", NoTable, FALSE)
            /\ UNCHANGED <<exists, files, ds>>
       ELSE IF ValidateRaises(ds.metadata.short_name)
       THEN /\ call' = Call("save", "NameError", NoTable, FALSE)
            /\ UNCHANGED <<exists, files, ds>>
       ELSE /\ files' = UpdateTableMetadata(
                            WriteFile(files, IndexFile, ToDict(ds.metadata)),
                            ToDict(ds.metadata))
            /\ call' = Call("save", "ok", NoTable, ~Truthy(ds.metadata.namespace))
            /\ UNCHANGED <<exists, ds>>

IsDataFile(name) == name.ext \in {"feather", "parquet", "csv"}

ExtChars(ext) ==
    CASE ext = "feather" -> <<"f", "e", "a", "t", "h", "e", "r">>
      [] ext = "parquet" -> <<"p", "a", "r", "q", "u", "e", "t">>
      [] ext = "csv"     -> <<"c", "s", "v">>
      [] ext = "json"    -> <<"j", "s", "o", "n">>
      [] ext = "txt"     -> <<"t", "x", "t">>
      [] ext = "meta.json" -> <<"m", "e", "t", "a", ".", "j", "s", "o", "n">>

\* the file's name as a string: all files share the directory prefix
PathChars(name) == name.stem \o <<".">> \o ExtChars(name.ext)

\* sorted(names): the sequence of the set's members in increasing string order
RECURSIVE SortedFiles(_)
SortedFiles(S) ==
    IF S = {} THEN <<>>
    ELSE LET least == CHOOSE x \in S :
                        \A y \in S \ {x} : StrLess(PathChars(x), PathChars(y))
         IN  <<least>> \o SortedFiles(S \ {least})

\* Dataset._data_files
DataFiles(fs) == SortedFiles({f \in DOMAIN fs : IsDataFile(f)})

\* Path(data_file).with_suffix(".meta.json")
SidecarOf(name) == FileName(name.stem, "meta.json")

\* Dataset.checksum() can read every file it hashes
ChecksumDefined(fs) ==
    /\ IndexFile \in DOMAIN fs
    /\ \A f \in DOMAIN fs : IsDataFile(f) => SidecarOf(f) \in DOMAIN fs

\* Dataset.checksum(): md5 over the digests of index.json and then, per data
\* file in sorted order, of the data file and of its sidecar.  Collisions
\* aside a digest stands for the bytes it was taken of, and the md5 of the
\* concatenated fixed-length digests for their sequence.
RECURSIVE HashedFiles(_, _)
HashedFiles(fs, names) ==
    IF names = <<>> THEN <<>>
    ELSE <<fs[Head(names)], fs[SidecarOf(Head(names))]>> \o HashedFiles(fs, Tail(names))

Checksum(fs) == <<fs[IndexFile]>> \o HashedFiles(fs, DataFiles(fs))

checksum ==
    /\ ds.open
    /\ call' = Call("checksum",
                    IF ChecksumDefined(files) THEN "ok" ELSE "FileNotFoundError",
                    NoTable, FALSE)
    /\ UNCHANGED <<exists, files, ds>>

\* Dataset._metadata_files
MetadataFiles(fs) == SortedFiles({f \in DOMAIN fs : IsSidecar(f)})

\* Dataset.table_names: the stems of the data files
table_names(fs) == {f.stem : f \in {g \in DOMAIN fs : IsDataFile(g)}}

\* one row of Dataset.index for a sidecar: the format key is set only when a
\* feather or a csv file of that name exists
IndexRow(fs, metadata_file) ==
    LET short_name == fs[metadata_file]["short_name"]
        row == [k \in {"table", "dimensions"} |->
                   IF k = "table" THEN short_name
                   ELSE fs[metadata_file]["primary_key"]]
    IN  IF FileName(short_name, "feather") \in DOMAIN fs
        THEN SetKey(row, "format", "feather")
        ELSE IF FileName(short_name, "csv") \in DOMAIN fs
        THEN SetKey(row, "format", "csv")
        ELSE row

RECURSIVE IndexRows(_, _)
IndexRows(fs, metadata_files) ==
    IF metadata_files = <<>> THEN <<>>
    ELSE <<IndexRow(fs, Head(metadata_files))>> \o IndexRows(fs, Tail(metadata_files))

\* Dataset.index(catalog_path): the checksum is taken first, then one row is
\* made per *.meta.json
index(fs) ==
    IF ~ChecksumDefined(fs)
    THEN [raised |-> "FileNotFoundError", rows |-> <<>>]
    ELSE IF \E f \in DOMAIN fs : IsSidecar(f) /\ "short_name" \notin DOMAIN fs[f]
    THEN [raised |-> "AssertionError", rows |-> <<>>]
    ELSE [raised |-> "none", rows |-> IndexRows(fs, MetadataFiles(fs))]

\* Dataset.__getitem__(name): the format of the file it reads, or KeyError
__getitem__(fs, name) ==
    IF FileName(name, "feather") \in DOMAIN fs THEN "feather"
    ELSE IF FileName(name, "parquet") \in DOMAIN fs THEN "parquet"
    ELSE IF FileName(name, "csv") \in DOMAIN fs THEN "csv"
    ELSE "KeyError"

\* Dataset.__contains__(name)
__contains__(fs, name) ==
    FileName(name, "feather") \in DOMAIN fs \/ FileName(name, "csv") \in DOMAIN fs

----------------------------------------------------------------------------
(* The inputs of the dataset operations *)

d_name  == <<"d">>
ns_name == <<"n", "s">>

t_plain      == Table(<<"t">>, << <<"c">> >>, <<None>>)
t_indexed    == Table(<<"u">>, << <<"c">> >>, << <<"k">> >>)
t_camel      == Table(<<"T">>, << <<"c">> >>, <<None>>)
t_bad_column == Table(<<"t">>, << <<"G", "d", "p">> >>, <<None>>)
t_bad_index  == Table(<<"t">>, << <<"c">> >>, << <<"K">> >>)
t_unnamed    == Table(None, << <<"c">> >>, <<None>>)
t_newline    == Table(<<"t">>, << <<"c", NL>> >>, <<None>>)

\* The naming rules: every kind of name, one table name, the default formats.
NamingMetas ==
    {DatasetMeta(None, None),               \* DatasetMeta()
     DatasetMeta(ns_name, d_name),
     DatasetMeta(None, d_name),             \* namespace unset
     DatasetMeta(ns_name, <<"D">>),         \* not snake_case
     DatasetMeta(ns_name, <<"d", NL>>)}     \* trailing newline

NamingTables ==
    {t_plain, t_camel, t_bad_column, t_bad_index, t_unnamed, t_newline}

NamingFormats == {DEFAULT_FORMATS}

\* The directory's contents: two tables, every list of formats.
DirMetas == {DatasetMeta(None, None), DatasetMeta(None, d_name)}

DirTables == {t_plain, t_indexed, t_camel}

DirFormats == {DEFAULT_FORMATS, <<"feather">>, <<"parquet">>, <<"csv", "xls">>}

DsInit ==
    /\ \/ exists = FALSE /\ files = EmptyDir
       \/ exists = TRUE /\ files = EmptyDir
       \/ exists = TRUE /\ files = WriteFile(EmptyDir, StrayFile, [kind |-> "txt"])
       \/ /\ exists = TRUE
          /\ files = WriteFile(WriteFile(EmptyDir, StrayFile, [kind |-> "txt"]),
                               IndexFile, ToDict(DatasetMeta(None, None)))
    /\ ds = [open |-> FALSE, metadata |-> NoDataset]
    /\ call = Call("init", "ok", NoTable, FALSE)

\* no dataset directory in hand
DsIdle ==
    /\ exists = FALSE
    /\ files = EmptyDir
    /\ ds = [open |-> FALSE, metadata |-> NoDataset]
    /\ call = Call("init", "ok", NoTable, FALSE)

DsNext(metas, tables, formatLists) ==
    \/ \E m \in metas \cup {NoDataset} : create_empty(m)
    \/ Open
    \/ \E m \in metas : SetMetadata(m)
    \/ \E t \in tables, f \in formatLists : add(t, f)
    \/ save
    \/ checksum

----------------------------------------------------------------------------
(* catalogs.py: search over the index *)

\* Python's `sub in s` on str
Contains(s, sub) ==
    \E i \in 0..(Len(s) - Len(sub)) : SubSeq(s, i + 1, i + Len(sub)) = sub

Row(table, namespace, version, dataset, channel, format, is_public, path) ==
    [table |-> table, namespace |-> namespace, version |-> version,
     dataset |-> dataset, channel |-> channel, format |-> format,
     is_public |-> is_public, path |-> path, checksum |-> "md5"]

Args(table, namespace, version, dataset, channel) ==
    [table |-> table, namespace |-> namespace, version |-> version,
     dataset |-> dataset, channel |-> channel]

\* the criteria of find with the table name compared for equality
FindCriteria_table_equal(args, row) ==
    /\ Truthy(args.table) => row.table = args.table
    /\ Truthy(args.namespace) => row.namespace = args.namespace
    /\ Truthy(args.version) => row.version = args.version
    /\ Truthy(args.dataset) => row.dataset = args.dataset
    /\ Truthy(args.channel) => row.channel = args.channel

\* the row passes every criterion find builds: an argument that is None or
\* "" is falsy and builds none
FindCriteria(args, row) ==
    /\ Truthy(args.table) => Contains(row.table, args.table)
    /\ Truthy(args.namespace) => row.namespace = args.namespace
    /\ Truthy(args.version) => row.version = args.version
    /\ Truthy(args.dataset) => row.dataset = args.dataset
    /\ Truthy(args.channel) => row.channel = args.channel

\* matches.drop(columns=["checksum"])
DropChecksum(rows) ==
    [i \in 1..Len(rows) |-> [k \in DOMAIN rows[i] \ {"checksum"} |-> rows[i][k]]]

Found(result, rows) == [result |-> result, rows |-> rows]

\* CatalogMixin.find
find(fr, chs, args) ==
    IF Truthy(args.channel) /\ args.channel \notin chs
    THEN Found("ValueError", <<>>)
    ELSE Found("ok", DropChecksum(SelectSeq(fr, LAMBDA row : FindCriteria(args, row))))

Loaded(result, loaded) == [result |-> result, loaded |-> loaded]

\* CatalogSeries.load: the row names a table file and the file is read
series_load(row) ==
    IF row.path # "" /\ row.format # ""
    THEN IF row.format \in {"feather", "csv"}
         THEN Loaded("ok", <<row>>)
         ELSE Loaded("ValueError", <<>>)
    ELSE Loaded("ValueError", <<>>)

\* CatalogFrame.load with any number of rows accepted
frame_load_first(rows) ==
    IF Len(rows) >= 1 THEN series_load(rows[1]) ELSE Loaded("ValueError", <<>>)

\* CatalogFrame.load
frame_load(rows) ==
    IF Len(rows) = 1 THEN series_load(rows[1]) ELSE Loaded("ValueError", <<>>)

\* rows with row put after the last element whose version is not greater
RECURSIVE InsertByVersion(_, _)
InsertByVersion(rows, row) ==
    IF rows = <<>> THEN <<row>>
    ELSE IF StrLess(row.version, rows[Len(rows)].version)
         THEN InsertByVersion(SubSeq(rows, 1, Len(rows) - 1), row) \o <<rows[Len(rows)]>>
         ELSE rows \o <<row>>

\* frame.sort_values("version"): numpy sorts a run of at most 16 items by
\* insertion, which keeps the order of rows with equal versions
RECURSIVE sort_values(_)
sort_values(rows) ==
    IF rows = <<>> THEN <<>>
    ELSE InsertByVersion(sort_values(SubSeq(rows, 1, Len(rows) - 1)), rows[Len(rows)])

\* .iloc[0] in the place of .iloc[-1]
latest_row_first(rows) == sort_values(rows)[1]

\* frame.sort_values("version").iloc[-1]
latest_row(rows) == sort_values(rows)[Len(rows)]

CCall(op, args, result, rows, loaded) ==
    [op |-> op, args |-> args, result |-> result, rows |-> rows, loaded |-> loaded]

NoArgs == Args(None, None, None, None, None)

Find(args) ==
    LET f == find(frame, channels, args)
    IN  /\ ccall' = CCall("find", args, f.result, f.rows, <<>>)
        /\ UNCHANGED <<frame, channels>>

\* CatalogMixin.find_one: self.find(...).load()
FindOne(args) ==
    LET f == find(frame, channels, args)
        l == IF f.result = "ok" THEN frame_load(f.rows) ELSE Loaded(f.result, <<>>)
    IN  /\ ccall' = CCall("find_one", args, l.result, f.rows, l.loaded)
        /\ UNCHANGED <<frame, channels>>

\* CatalogMixin.find_latest
FindLatest(args) ==
    LET f == find(frame, channels, args)
        l == IF f.result # "ok" THEN Loaded(f.result, <<>>)
             ELSE IF f.rows = <<>> THEN Loaded("ValueError", <<>>)
             ELSE series_load(latest_row(f.rows))
    IN  /\ ccall' = CCall("find_latest", args, l.result, f.rows, l.loaded)
        /\ UNCHANGED <<frame, channels>>

----------------------------------------------------------------------------
(* The inputs of the searches *)

MaxRows == 2

garden == <<"g", "a", "r", "d", "e", "n">>
meadow == <<"m", "e", "a", "d", "o", "w">>

\* a table kept in two versions, a private table whose name is part of
\* another's, and a table of a second namespace and channel
RowPool ==
    {Row(<<"p", "o">>, <<"a">>, <<"9">>, <<"d">>, garden, "feather", TRUE, "garden/a/9/d/po"),
     Row(<<"p", "o">>, <<"a">>, <<"1", "0">>, <<"d">>, garden, "feather", TRUE, "garden/a/10/d/po"),
     Row(<<"p">>, <<"a">>, <<"9">>, <<"e">>, garden, "csv", FALSE, "garden/a/9/e/p"),
     Row(<<"g">>, <<"b">>, <<"1", "0">>, <<"e">>, meadow, "feather", TRUE, "meadow/b/10/e/g")}

Frames == UNION {[1..n -> RowPool] : n \in 0..MaxRows}

ChannelSets == {{garden}, {garden, meadow}}

FindArgs ==
    {Args(t, n, v, d, c) :
        t \in {None, <<"p">>}, n \in {None, <<>>, <<"a">>}, v \in {None, <<"9">>},
        d \in {None, <<"d">>}, c \in {None, meadow}}

\* no catalog in hand
CatIdle ==
    /\ frame = <<>>
    /\ channels = {}
    /\ ccall = CCall("init", NoArgs, "ok", <<>>, <<>>)

\* a catalog whose index holds rows of the channels it was built for
CatInit ==
    /\ channels \in ChannelSets
    /\ frame \in {fr \in Frames : \A i \in 1..Len(fr) : fr[i].channel \in channels}
    /\ ccall = CCall("init", NoArgs, "ok", <<>>, <<>>)

CatNext ==
    \/ \E args \in FindArgs : Find(args)
    \/ \E args \in FindArgs : FindOne(args)
    \/ \E args \in FindArgs : FindLatest(args)

----------------------------------------------------------------------------
(* catalogs.py: the remote catalog and the module-level find *)

OWID_CATALOG_VERSION == 2

MaxFormatVersion == 3

\* the published index of a channel: catalog-{channel}.feather
ChannelIndex(channel) ==
    SelectSeq(<<Row(<<"p", "o">>, <<"a">>, <<"9">>, <<"d">>, garden, "feather", TRUE, "garden/a/9/d/po"),
                Row(<<"p">>, <<"a">>, <<"9">>, <<"e">>, garden, "csv", FALSE, "garden/a/9/e/p"),
                Row(<<"g">>, <<"b">>, <<"1", "0">>, <<"e">>, meadow, "feather", TRUE, "meadow/b/10/e/g")>>,
              LAMBDA row : row.channel = channel)

MetadataFile == "catalog.meta.json"

ChannelFile(channel) == <<"catalog-", channel, ".feather">>

NoCatalog == [unset |-> TRUE]

NoMetadata == [unset |-> TRUE]

RemoteCatalog(chs, metadata, fr) ==
    [channels |-> chs, metadata |-> metadata, frame |-> fr]

\* set(REMOTE_CATALOG.channels), nothing when no catalog is cached
CachedChannels(catalog) ==
    IF catalog = NoCatalog THEN {} ELSE Range(catalog.channels)

\* the orders in which list(set) can enumerate a set
ListsOf(S) ==
    {l \in [1..Cardinality(S) -> S] : \A i, j \in 1..Cardinality(S) : l[i] = l[j] => i = j}

\* the version check with the comparison left out
VersionTooNew_never(metadata) == FALSE

\* self.metadata["format_version"] > OWID_CATALOG_VERSION
VersionTooNew(metadata) == metadata.format_version > OWID_CATALOG_VERSION

\* a rebuild that asks for the new channels only
RebuildChannels_requested(cached, chs) == chs

\* set(REMOTE_CATALOG.channels) | set(channels)
RebuildChannels(cached, chs) == cached \cup chs

NoCall == [unset |-> TRUE]

Running(chs, args, obj) == [channels |-> chs, args |-> args, obj |-> obj]

RCall(chs, result, rows, fetched) ==
    [channels |-> chs, result |-> result, rows |-> rows, reads |-> fetched]

\* the running call ends with an exception: nothing is assigned
Raise(result, fetched) ==
    /\ rcall' = RCall(cur.channels, result, <<>>, fetched)
    /\ pc' = "idle"
    /\ cur' = NoCall
    /\ reads' = <<>>
    /\ UNCHANGED <<REMOTE_CATALOG, remote_format_version, requested>>

\* find, up to the construction of a RemoteCatalog or the cached one's reuse
module_find(chs, args) ==
    /\ pc = "idle"
    /\ reads' = <<>>
    /\ IF REMOTE_CATALOG # NoCatalog /\ ~(Range(chs) \subseteq Range(REMOTE_CATALOG.channels))
       THEN /\ \E l \in ListsOf(RebuildChannels(Range(REMOTE_CATALOG.channels), Range(chs))) :
                  cur' = Running(chs, args, RemoteCatalog(l, NoMetadata, <<>>))
            /\ pc' = "read_metadata"
       ELSE IF REMOTE_CATALOG = NoCatalog
       THEN /\ cur' = Running(chs, args, RemoteCatalog(chs, NoMetadata, <<>>))
            /\ pc' = "read_metadata"
       ELSE /\ cur' = Running(chs, args, NoCatalog)
            /\ pc' = "find"
    /\ UNCHANGED <<REMOTE_CATALOG, remote_format_version, requested, rcall>>

\* RemoteCatalog.__init__: self.metadata = self._read_metadata(...)
read_metadata ==
    /\ pc = "read_metadata"
    /\ \/ /\ reads' = Append(reads, MetadataFile)
          /\ cur' = [cur EXCEPT !.obj.metadata = [format_version |-> remote_format_version]]
          /\ pc' = "check_version"
          /\ UNCHANGED <<REMOTE_CATALOG, remote_format_version, requested, rcall>>
       \/ Raise("HTTPError", Append(reads, MetadataFile))

\* RemoteCatalog.__init__: the format_version check
check_version ==
    /\ pc = "check_version"
    /\ IF VersionTooNew(cur.obj.metadata)
       THEN Raise("PackageUpdateRequired", reads)
       ELSE /\ pc' = "read_channels"
            /\ UNCHANGED <<REMOTE_CATALOG, remote_format_version, cur, reads, requested, rcall>>

\* RemoteCatalog._read_channels: the next pd.read_feather of the list
read_channel ==
    /\ pc = "read_channels"
    /\ Len(reads) <= Len(cur.obj.channels)
    /\ LET channel == cur.obj.channels[Len(reads)]
       IN  \/ /\ reads' = Append(reads, ChannelFile(channel))
              /\ cur' = [cur EXCEPT !.obj.frame = cur.obj.frame \o ChannelIndex(channel)]
              /\ UNCHANGED <<REMOTE_CATALOG, remote_format_version, pc, requested, rcall>>
           \/ Raise("HTTPError", Append(reads, ChannelFile(channel)))

\* pd.concat of the channels read, and REMOTE_CATALOG = RemoteCatalog(...)
RemoteCatalog_done ==
    /\ pc = "read_channels"
    /\ Len(reads) > Len(cur.obj.channels)
    /\ IF Len(cur.obj.channels) = 0
       THEN Raise("ValueError", reads)
       ELSE /\ REMOTE_CATALOG' = cur.obj
            /\ pc' = "find"
            /\ UNCHANGED <<remote_format_version, cur, reads, requested, rcall>>

\* return REMOTE_CATALOG.find(table, namespace, version, dataset)
remote_find ==
    /\ pc = "find"
    /\ LET f == find(REMOTE_CATALOG.frame, Range(REMOTE_CATALOG.channels), cur.args)
       IN  rcall' = RCall(cur.channels, f.result, f.rows, reads)
    /\ requested' = requested \cup Range(cur.channels)
    /\ pc' = "idle"
    /\ cur' = NoCall
    /\ reads' = <<>>
    /\ UNCHANGED <<REMOTE_CATALOG, remote_format_version>>

\* the catalog's publisher moves to a newer format
publish_format ==
    /\ remote_format_version < MaxFormatVersion
    /\ remote_format_version' = remote_format_version + 1
    /\ UNCHANGED <<REMOTE_CATALOG, pc, cur, reads, requested, rcall>>

----------------------------------------------------------------------------
(* The inputs of the module-level find *)

ChannelLists == {<<>>, <<garden>>, <<meadow>>, <<garden, meadow>>}

RemoteArgs == {Args(t, None, None, None, None) : t \in {None, <<"p">>}}

\* the module is not imported
RemoteIdle ==
    /\ REMOTE_CATALOG = NoCatalog
    /\ remote_format_version = OWID_CATALOG_VERSION
    /\ pc = "idle"
    /\ cur = NoCall
    /\ reads = <<>>
    /\ requested = {}
    /\ rcall = RCall(<<>>, "init", <<>>, <<>>)

\* the module as imported, against a catalog published in some format
RemoteInit ==
    /\ REMOTE_CATALOG = NoCatalog
    /\ remote_format_version \in 1..MaxFormatVersion
    /\ pc = "idle"
    /\ cur = NoCall
    /\ reads = <<>>
    /\ requested = {}
    /\ rcall = RCall(<<>>, "init", <<>>, <<>>)

RemoteNext ==
    \/ \E chs \in ChannelLists, args \in RemoteArgs : module_find(chs, args)
    \/ read_metadata
    \/ check_version
    \/ read_channel
    \/ RemoteCatalog_done
    \/ remote_find
    \/ publish_format

----------------------------------------------------------------------------
(* catalogs.py: CatalogSeries.load, step by step *)

\* the fields of an index row that load reads, and the frame's _base_uri;
\* "" stands for a missing value
Series(path, format, is_public, base_uri) ==
    [path |-> path, format |-> format, is_public |-> is_public, base_uri |-> base_uri]

NoSeries == [unset |-> TRUE]

\* a load under way: its position, the uri it will read ("remote": under
\* _base_uri, "tmpdir": the downloaded copy), whether Table.read_* has been
\* called, and the return value or exception on its way to the caller
Loading(at, series, uri, deserialized, pending) ==
    [pc |-> at, series |-> series, uri |-> uri,
     deserialized |-> deserialized, pending |-> pending]

NotLoading == Loading("idle", NoSeries, "", FALSE, "")

LCall(series, result, deserialized) ==
    [series |-> series, result |-> result, deserialized |-> deserialized]

NoTmpdir == [exists |-> FALSE, files |-> {}]

\* tmpdir + "/data.meta.json"
StagedSidecar == <<"data", "meta.json">>

\* tmpdir + "/data" + ext
StagedData(format) == <<"data", format>>

\* leaving the with block without removing the directory
TemporaryDirectory_exit_kept(dir) == dir

\* TemporaryDirectory.__exit__: the directory and its files are removed
TemporaryDirectory_exit(dir) == NoTmpdir

\* an exception or a return value leaves the with block
Leave(result, deserialized) ==
    /\ ld' = [ld EXCEPT !.pc = "leaving", !.pending = result,
                        !.deserialized = deserialized]
    /\ UNCHANGED <<tmpdir, lcall>>

\* CatalogSeries.load up to its with statement
load_enter(s) ==
    /\ ld.pc = "idle"
    /\ IF s.path # "" /\ s.format # "" /\ s.base_uri # ""
       THEN /\ tmpdir' = [exists |-> TRUE, files |-> {}]
            /\ ld' = Loading(IF s.is_public THEN "dispatch" ELSE "download",
                             s, "remote", FALSE, "")
            /\ UNCHANGED lcall
       ELSE /\ lcall' = LCall(s, "ValueError", FALSE)
            /\ UNCHANGED <<ld, tmpdir>>

\* _download_private_file: s3_utils.download of the sidecar
download_sidecar ==
    /\ ld.pc = "download"
    /\ \/ /\ tmpdir' = [tmpdir EXCEPT !.files = @ \cup {StagedSidecar}]
          /\ ld' = [ld EXCEPT !.pc = "download_data"]
          /\ UNCHANGED lcall
       \/ Leave("DownloadError", FALSE)

\* _download_private_file: s3_utils.download of the data file
download_data ==
    /\ ld.pc = "download_data"
    /\ \/ /\ tmpdir' = [tmpdir EXCEPT !.files = @ \cup {StagedData(ld.series.format)}]
          /\ ld' = [ld EXCEPT !.pc = "dispatch", !.uri = "tmpdir"]
          /\ UNCHANGED lcall
       \/ Leave("DownloadError", FALSE)

\* the dispatch on self.format: Table.read_feather, Table.read_csv or ValueError
read_table ==
    /\ ld.pc = "dispatch"
    /\ IF ld.series.format \in {"feather", "csv"}
       THEN IF ld.uri = "tmpdir"
               /\ ~({StagedData(ld.series.format), StagedSidecar} \subseteq tmpdir.files)
            THEN Leave("FileNotFoundError", TRUE)
            ELSE \/ Leave("ok", TRUE)
                 \/ Leave("ReadError", TRUE)
       ELSE Leave("ValueError", FALSE)

\* the with block is left: the temporary directory is cleaned up
leave_tmpdir ==
    /\ ld.pc = "leaving"
    /\ tmpdir' = TemporaryDirectory_exit(tmpdir)
    /\ ld' = [ld EXCEPT !.pc = "left"]
    /\ UNCHANGED lcall

\* control is back with the caller of load
load_return ==
    /\ ld.pc = "left"
    /\ lcall' = LCall(ld.series, ld.pending, ld.deserialized)
    /\ ld' = NotLoading
    /\ UNCHANGED tmpdir

\* the rows load can be called on
LoadSeries ==
    {Series(p, f, pub, u) :
        p \in {"", "garden/a/9/e/p"}, f \in {"", "feather", "csv", "parquet"},
        pub \in BOOLEAN, u \in {"", "https://catalog/"}}

LoadIdle ==
    /\ ld = NotLoading
    /\ tmpdir = NoTmpdir
    /\ lcall = LCall(NoSeries, "init", FALSE)

LoadNext ==
    \/ \E s \in LoadSeries : load_enter(s)
    \/ download_sidecar
    \/ download_data
    \/ read_table
    \/ leave_tmpdir
    \/ load_return

----------------------------------------------------------------------------
(* meta.py: VariableMeta and TableMeta; tables.py: the Table in memory *)

\* VariableMeta: the text fields hold a str or None, sources and licenses a
\* list, display and additional_info a dict or None
VariableMeta(title, description, sources, unit, short_unit, display) ==
    [title |-> title, description |-> description, sources |-> sources,
     licenses |-> <<>>, unit |-> unit, short_unit |-> short_unit,
     display |-> display, additional_info |-> None]

\* VariableMeta()
EmptyVariableMeta == VariableMeta(None, None, <<>>, None, None, None)

\* pruned_json on VariableMeta: a field is kept unless its value is None, []
\* or {}
VariableToDict(m) ==
    [k \in {f \in {"title", "description", "unit", "short_unit"} : m[f] # None}
           \cup {f \in {"sources", "licenses"} : m[f] # <<>>}
           \cup {f \in {"display", "additional_info"} : m[f] # None /\ m[f] # EmptyDict}
        |-> m[k]]

\* VariableMeta.from_dict: a missing key takes the declared default
VariableFromDict(d) ==
    [k \in DOMAIN EmptyVariableMeta |->
        IF k \in DOMAIN d THEN d[k] ELSE EmptyVariableMeta[k]]

\* A Table in memory: its TableMeta (short_name, title, dataset and the
\* primary_key field), its data columns with the kind of values they hold,
\* the names of its index levels, and _fields: a defaultdict unless
\* prune_metadata made it a dict.
TableObj(short_name, title, dataset, meta_primary_key, columns, kinds, index_names, fields, is_defaultdict) ==
    [short_name |-> short_name, title |-> title, dataset |-> dataset,
     meta_primary_key |-> meta_primary_key, columns |-> columns,
     kinds |-> kinds, index_names |-> index_names, fields |-> fields,
     is_defaultdict |-> is_defaultdict]

\* TableMeta.__eq__: the dataset field is declared with compare=False
TableMetaOf(t) ==
    [short_name |-> t.short_name, title |-> t.title,
     primary_key |-> t.meta_primary_key]

\* self._fields[col] can be evaluated
HasField(t, col) == col \in DOMAIN t.fields \/ t.is_defaultdict

\* self._fields[col]
Field(t, col) ==
    IF col \in DOMAIN t.fields THEN t.fields[col] ELSE EmptyVariableMeta

\* Table._get_fields_as_dict raises KeyError
FieldsRaise(t) == \E col \in Range(all_columns(t)) : ~HasField(t, col)

\* Table._get_fields_as_dict
get_fields_as_dict(t) ==
    [col \in Range(all_columns(t)) |-> VariableToDict(Field(t, col))]

\* TableMeta.to_dict with the dataset field left out
TableMetaToDict_without_dataset(t) ==
    LET keys == {f \in {"short_name", "title"} : t[f] # None}
                \cup (IF t.meta_primary_key # <<>> THEN {"primary_key"} ELSE {})
    IN  [k \in keys |->
            CASE k = "short_name"  -> t.short_name
              [] k = "title"       -> t.title
              [] k = "primary_key" -> t.meta_primary_key]

\* TableMeta.to_dict (pruned): the nested DatasetMeta is converted field by
\* field and, being a non-empty dict, is kept
TableMetaToDict(t) ==
    LET keys == {f \in {"short_name", "title"} : t[f] # None}
                \cup (IF t.dataset # NoDataset THEN {"dataset"} ELSE {})
                \cup (IF t.meta_primary_key # <<>> THEN {"primary_key"} ELSE {})
    IN  [k \in keys |->
            CASE k = "short_name"  -> t.short_name
              [] k = "title"       -> t.title
              [] k = "dataset"     -> AsDict(t.dataset)
              [] k = "primary_key" -> t.meta_primary_key]

\* Table._save_metadata: the JSON of the sidecar
save_metadata(t) ==
    SetKey(SetKey(TableMetaToDict(t), "primary_key", primary_key(t)),
           "fields", get_fields_as_dict(t))

\* what a file holds of a column's values: feather and parquet keep the
\* type, csv writes text
Written(kind, format) ==
    IF format = "csv"
    THEN (IF kind \in {"int", "digits"} THEN "text of digits" ELSE "text")
    ELSE kind

\* what reading the file makes of them: pd.read_csv infers the type of a
\* column from its text
Parsed(content, format) ==
    IF format = "csv"
    THEN (IF content = "text of digits" THEN "int" ELSE "str")
    ELSE content

\* the frame that is written: reset_index() puts the named index levels in
\* front of the columns (to_csv: index=save_index)
WrittenColumns(t) == primary_key(t) \o t.columns

\* the index levels hold labels of the default kind
KindOf(t, col) == IF col \in DOMAIN t.kinds THEN t.kinds[col] ELSE "str"

\* Table.to_csv, to_feather, to_parquet: what is written
Saved(t, format) ==
    [format |-> format,
     columns |-> WrittenColumns(t),
     content |-> [i \in 1..Len(WrittenColumns(t)) |->
                     Written(KindOf(t, WrittenColumns(t)[i]), format)],
     sidecar |-> IF format = "parquet" THEN EmptyDict ELSE save_metadata(t),
     owid_table |-> IF format = "parquet" THEN TableMetaToDict(t) ELSE EmptyDict,
     owid_fields |-> IF format = "parquet" THEN get_fields_as_dict(t) ELSE EmptyDict,
     primary_key |-> IF format = "parquet" THEN primary_key(t) ELSE <<>>]

\* the save raises: to_feather on index names that are also columns, pandas'
\* reset_index in to_parquet on the same, and every format on a missing
\* _fields entry
SaveRaises(t, format) ==
    IF format \in {"feather", "parquet"} /\ FeatherRaises(t) THEN "ValueError"
    ELSE IF FieldsRaise(t) THEN "KeyError"
    ELSE "ok"

\* Table.set_index(keys) on the columns: the keys become the index and
\* metadata.primary_key
SetIndex(t, keys) ==
    [t EXCEPT !.index_names = keys,
              !.columns = SelectSeq(t.columns, LAMBDA c : c \notin Range(keys)),
              !.meta_primary_key = keys]

\* pd.read_csv names the second column of a name "name.1"
Mangled(cols) ==
    [i \in 1..Len(cols) |->
        IF \E j \in 1..(i - 1) : cols[j] = cols[i]
        THEN cols[i] \o <<".", "1">> ELSE cols[i]]

\* Table.read_csv, read_feather, read_parquet
Read(file) ==
    LET meta == IF file.format = "parquet" THEN file.owid_table ELSE file.sidecar
        key  == IF file.format = "parquet" THEN file.primary_key
                ELSE IF "primary_key" \in DOMAIN meta THEN meta["primary_key"] ELSE <<>>
        fds  == IF file.format = "parquet" THEN file.owid_fields
                ELSE IF "fields" \in DOMAIN meta THEN meta["fields"] ELSE EmptyDict
        \* read_csv pops primary_key before TableMeta(**metadata); read_feather
        \* leaves it in the dict given to TableMeta.from_dict
        kept == IF file.format = "csv" THEN <<>>
                ELSE IF "primary_key" \in DOMAIN meta THEN meta["primary_key"] ELSE <<>>
        cols == IF file.format = "csv" THEN Mangled(file.columns) ELSE file.columns
        t == TableObj(IF "short_name" \in DOMAIN meta THEN meta["short_name"] ELSE None,
                      IF "title" \in DOMAIN meta THEN meta["title"] ELSE None,
                      IF "dataset" \in DOMAIN meta THEN FromDict(meta["dataset"]) ELSE NoDataset,
                      kept,
                      cols,
                      [col \in Range(cols) |->
                          Parsed(file.content[CHOOSE i \in 1..Len(cols) : cols[i] = col],
                                 file.format)],
                      <<None>>,
                      [col \in DOMAIN fds |-> VariableFromDict(fds[col])],
                      TRUE)
    IN  IF key # <<>> THEN SetIndex(t, key) ELSE t

\* the outcome of an operation on the table: how it ended, the file a save
\* wrote and the table read back from it
TCall(op, result, file, loaded) ==
    [op |-> op, result |-> result, file |-> file, loaded |-> loaded]

NoFile == [unset |-> TRUE]

\* a value assigned to a column: a named Variable carries its metadata, an
\* unnamed Variable has none to give, anything else is plain data
Value(type, kind, metadata) == [type |-> type, kind |-> kind, metadata |-> metadata]

\* Table.__setitem__(key, value) with a str key
setitem(key, value) ==
    LET added == [tab EXCEPT
                    !.columns = IF key \in Range(tab.columns) THEN @ ELSE Append(@, key),
                    !.kinds = SetKey(@, key, value.kind)]
    IN  CASE value.type = "Variable" ->
               /\ tab' = [added EXCEPT !.fields = SetKey(@, key, value.metadata)]
               /\ tcall' = TCall("setitem", "ok", NoFile, NoTable)
          [] value.type = "unnamed Variable" ->
               \* value.metadata raises after the column has been set
               /\ tab' = added
               /\ tcall' = TCall("setitem", "ValueError", NoFile, NoTable)
          [] OTHER ->
               /\ tab' = [added EXCEPT !.fields = SetKey(@, key, EmptyVariableMeta)]
               /\ tcall' = TCall("setitem", "ok", NoFile, NoTable)

\* Table.set_index(keys), in place or on the copy that replaces the table
set_index(keys) ==
    /\ Range(keys) \subseteq Range(tab.columns)
    /\ tab' = SetIndex(tab, keys)
    /\ tcall' = TCall("set_index", "ok", NoFile, NoTable)

\* pandas' rename(columns=mapper): the labels of the columns axis are
\* mapped, the names of the index levels are not on that axis
RenamedColumns(cols, mapper) ==
    [i \in 1..Len(cols) |-> IF cols[i] \in DOMAIN mapper THEN mapper[cols[i]] ELSE cols[i]]

\* zip(old_cols, new_table.all_columns): the metadata of the old name at each
\* position goes to the new name at that position
RenamedFields(old, new) ==
    LET old_cols == all_columns(old)
        new_cols == all_columns(new)
    IN  [col \in Range(new_cols) |->
            Field(old, old_cols[CHOOSE i \in 1..Len(new_cols) :
                                   /\ new_cols[i] = col
                                   /\ \A j \in i + 1..Len(new_cols) : new_cols[j] # col])]

\* Table.rename(columns=mapper), in place or on the copy that replaces it
rename(mapper) ==
    LET new_cols == RenamedColumns(tab.columns, mapper)
        renamed == [tab EXCEPT
                      !.columns = new_cols,
                      !.kinds = [col \in Range(new_cols) |->
                                   KindOf(tab, tab.columns[CHOOSE i \in 1..Len(new_cols) :
                                                               new_cols[i] = col])]]
    IN  IF FieldsRaise(tab)
        THEN /\ tcall' = TCall("rename", "KeyError", NoFile, NoTable)
             /\ UNCHANGED tab
        ELSE /\ tab' = [renamed EXCEPT !.fields = RenamedFields(tab, renamed),
                                       !.is_defaultdict = TRUE]
             /\ tcall' = TCall("rename", "ok", NoFile, NoTable)

\* Table.prune_metadata: _fields becomes a plain dict over the current columns
prune_metadata ==
    IF FieldsRaise(tab)
    THEN /\ tcall' = TCall("prune_metadata", "KeyError", NoFile, NoTable)
         /\ UNCHANGED tab
    ELSE /\ tab' = [tab EXCEPT
                      !.fields = [col \in Range(all_columns(tab)) |-> Field(tab, col)],
                      !.is_defaultdict = FALSE]
         /\ tcall' = TCall("prune_metadata", "ok", NoFile, NoTable)

\* Dataset.add's table.metadata.dataset = self.metadata
stamp(dataset_meta) ==
    /\ tab' = [tab EXCEPT !.dataset = dataset_meta]
    /\ tcall' = TCall("stamp", "ok", NoFile, NoTable)

\* Table.to_<format>(path) and then Table.read_<format>(path)
round_trip(format) ==
    /\ IF SaveRaises(tab, format) # "ok"
       THEN tcall' = TCall("round_trip", SaveRaises(tab, format), NoFile, NoTable)
       ELSE tcall' = TCall("round_trip", "ok", Saved(tab, format), Read(Saved(tab, format)))
    /\ UNCHANGED tab

----------------------------------------------------------------------------
(* The inputs of the table operations *)

col_a == <<"a">>
col_b == <<"b">>
col_x == <<"x">>
idx_k == <<"k">>

described == VariableMeta(None, <<"A">>, <<>>, None, None, None)

\* display={}
empty_display == VariableMeta(None, None, <<>>, None, None, EmptyDict)

\* Table(df): the columns of df become the table's, the index of df its
\* index, and the TableMeta is empty but for the short_name
NewTable(title, index_names, b_kind, fields) ==
    TableObj(<<"t">>, title, NoDataset, <<>>, <<col_a, col_b>>,
             [col \in {col_a, col_b} |-> IF col = col_a THEN "int" ELSE b_kind],
             index_names, fields, TRUE)

TabIdle ==
    /\ tab = NewTable(None, <<None>>, "str", EmptyDict)
    /\ tcall = TCall("init", "ok", NoFile, NoTable)

\* tables to change the columns of: with and without an index, with and
\* without metadata on a column and on the index
ColumnsInit ==
    /\ tab \in {NewTable(None, <<None>>, "str", EmptyDict),
                NewTable(None, <<None>>, "str", [col \in {col_a} |-> described]),
                NewTable(None, <<idx_k>>, "str", [col \in {col_a, idx_k} |-> described])}
    /\ tcall = TCall("init", "ok", NoFile, NoTable)

Values ==
    {Value("Variable", "int", described),
     Value("unnamed Variable", "int", EmptyVariableMeta),
     Value("list", "int", EmptyVariableMeta)}

Mappers ==
    {[col \in {col_a} |-> col_x], [col \in {idx_k} |-> col_x],
     [col \in {col_a, col_b} |-> IF col = col_a THEN col_b ELSE col_a]}

MaxColumns == 3

ColumnsNext ==
    \/ \E key \in {col_a, col_x}, value \in Values :
          /\ key \in Range(tab.columns) \/ Len(tab.columns) < MaxColumns
          /\ setitem(key, value)
    \/ set_index(<<col_a>>)
    \/ \E mapper \in Mappers : rename(mapper)
    \/ prune_metadata
    \/ \E format \in {"feather", "parquet"} : round_trip(format)

\* tables to save and load: any title, index, kind of values and metadata
RoundTripInit ==
    /\ tab \in {NewTable(title, i, kind, f) :
                  title \in {None, <<"T">>},
                  i \in {<<None>>, <<idx_k>>},
                  kind \in {"str", "digits"},
                  f \in {EmptyDict, [col \in {col_a} |-> described],
                         [col \in {col_a} |-> empty_display]}}
    /\ tcall = TCall("init", "ok", NoFile, NoTable)

RoundTripNext ==
    \/ \E keys \in {<<col_a>>, <<col_a, col_b>>} : set_index(keys)
    \/ stamp(DatasetMeta(None, d_name))
    \/ \E format \in ALLOWED_FORMATS : round_trip(format)

----------------------------------------------------------------------------
(* variables.py: operations on Variables *)

UNNAMED_VARIABLE ==
    <<"*", "*", "T", "E", "M", "P", "O", "R", "A", "R", "Y", " ", "U",
      "N", "N", "A", "M", "E", "D", " ", "V", "A", "R", "I", "A", "B",
      "L", "E", "*", "*">>

\* Variable(data, name=name) with its metadata; an unnamed Variable has the
\* name None, a scalar is no Variable
Variable(name, metadata) == [name |-> name, metadata |-> metadata]

Scalar == [value |-> 2]

NoVariable == [unset |-> TRUE]

\* isinstance of Variable: what carries the metadata property
IsVariable(v) == "metadata" \in DOMAIN v

\* Variable.checked_name raises ValueError for a Variable without a name
checked_name_raises(v) == IsVariable(v) /\ v.name = None

\* getattr(variable.metadata, attr) raises AttributeError for an attribute
\* that VariableMeta does not declare
HasAttr(metadata, attr) == attr \in DOMAIN metadata

\* pd.unique of the values of one metadata attribute over the variables
unique(variables, attr) == {variables[i].metadata[attr] : i \in DOMAIN variables}

_combine_variable_units_or_short_units(variables, operation, unit_or_short_unit) ==
    LET units_or_short_units == unique(variables, unit_or_short_unit)
    IN  IF operation \in {"+", "-"}
        THEN IF Cardinality(units_or_short_units) # 1
             THEN None
             ELSE CHOOSE u \in units_or_short_units : TRUE
        ELSE None

combine_variables_units(variables, operation) ==
    _combine_variable_units_or_short_units(variables, operation, "unit")

combine_variables_short_units(variables, operation) ==
    _combine_variable_units_or_short_units(variables, operation, "short_unit")

_combine_variables_titles_and_descriptions(variables, operation, title_or_description) ==
    LET titles_or_descriptions == unique(variables, title_or_description)
    IN  IF /\ operation \in {"+", "-", "fillna", "merge"}
           /\ Cardinality(titles_or_descriptions) = 1
        THEN CHOOSE t \in titles_or_descriptions : TRUE
        ELSE None

\* the members of a sequence in the order of their first occurrence
RECURSIVE Unique(_)
Unique(s) ==
    IF s = <<>> THEN <<>>
    ELSE LET front == Unique(SubSeq(s, 1, Len(s) - 1))
         IN  IF s[Len(s)] \in Range(front) THEN front ELSE Append(front, s[Len(s)])

RECURSIVE Sum(_, _)
Sum(variables, attr) ==
    IF variables = <<>> THEN <<>>
    ELSE variables[1].metadata[attr] \o Sum(Tail(variables), attr)

get_unique_sources_from_variables(variables) == Unique(Sum(variables, "sources"))

get_unique_licenses_from_variables(variables) == Unique(Sum(variables, "licenses"))

\* combine_variables_processing_logs reads metadata.processing_log of every
\* variable
combine_variables_processing_logs_raises(variables) ==
    \E i \in DOMAIN variables : ~HasAttr(variables[i].metadata, "processing_log")

\* combine_variables_processing_logs: the logs one after the other (a log
\* of None counts as the empty list, which is how the logs here are written)
RECURSIVE combine_variables_processing_logs(_)
combine_variables_processing_logs(variables) ==
    IF variables = <<>> THEN <<>>
    ELSE variables[1].metadata["processing_log"]
         \o combine_variables_processing_logs(Tail(variables))

add_entry_to_processing_log(processing_log, variable, parents, operation) ==
    Append(processing_log,
           [variable |-> variable, parents |-> parents, operation |-> operation])

\* variable.name if hasattr(variable, "name") else str(variable)
NameOrStr(v) == IF IsVariable(v) THEN v.name ELSE <<"2">>

\* combine_variables_metadata: the exception it raises, if any, and the
\* metadata it returns otherwise
combine_variables_metadata(variables, operation) ==
    LET variables_only == SelectSeq(variables, IsVariable)
        combined_log == combine_variables_processing_logs(variables_only)
    IN  IF \E i \in DOMAIN variables : checked_name_raises(variables[i])
        THEN [raised |-> "ValueError", metadata |-> NoVariable]
        ELSE IF combine_variables_processing_logs_raises(variables_only)
        THEN [raised |-> "AttributeError", metadata |-> NoVariable]
        ELSE [raised |-> "none",
              metadata |->
                SetKey([EmptyVariableMeta EXCEPT
                          !.title = _combine_variables_titles_and_descriptions(variables_only, operation, "title"),
                          !.description = _combine_variables_titles_and_descriptions(variables_only, operation, "description"),
                          !.unit = combine_variables_units(variables_only, operation),
                          !.short_unit = combine_variables_short_units(variables_only, operation),
                          !.sources = get_unique_sources_from_variables(variables_only),
                          !.licenses = get_unique_licenses_from_variables(variables_only)],
                       "processing_log",
                       IF UPDATE_PROCESSING_LOG
                       THEN add_entry_to_processing_log(
                                combined_log, UNNAMED_VARIABLE,
                                [i \in DOMAIN variables |-> NameOrStr(variables[i])],
                                operation)
                       ELSE combined_log)]

VCall(op, other, raised, variable) ==
    [op |-> op, other |-> other, raised |-> raised, variable |-> variable]

\* A op other: Variable.__add__, __sub__, __mul__, __truediv__,
\* __floordiv__, __mod__, __pow__, and A.fillna(other)
operate(op, other) ==
    LET combined == combine_variables_metadata(<<operands.A, other>>, op)
    IN  /\ vcall' = VCall(op, other, combined.raised,
                          IF combined.raised = "none"
                          THEN Variable(UNNAMED_VARIABLE, combined.metadata)
                          ELSE NoVariable)
        /\ UNCHANGED <<operands, UPDATE_PROCESSING_LOG, column>>

\* table[key] = result followed by table[key]: Table.__setitem__ stores the
\* result's metadata under key, and the Variable sliced from the column
\* takes the column's label as its name
assign(key) ==
    /\ vcall.variable # NoVariable
    /\ column' = Variable(key, vcall.variable.metadata)
    /\ UNCHANGED <<operands, vcall, UPDATE_PROCESSING_LOG>>

\* str.replace on one name of a log entry
Renamed(n, old, new) == IF n = old THEN new ELSE n

\* update_variable_name(variable, name): every UNNAMED_VARIABLE in the
\* processing log becomes name, and so does the name of the variable
update_variable_name(v, name) ==
    Variable(name,
             IF HasAttr(v.metadata, "processing_log")
             THEN SetKey(v.metadata, "processing_log",
                         [i \in DOMAIN v.metadata["processing_log"] |->
                            LET e == v.metadata["processing_log"][i]
                            IN  [variable |-> Renamed(e.variable, UNNAMED_VARIABLE, name),
                                 parents |-> [j \in DOMAIN e.parents |->
                                                Renamed(e.parents[j], UNNAMED_VARIABLE, name)],
                                 operation |-> e.operation]])
             ELSE v.metadata)

NCall(old, new) == [old |-> old, new |-> new]

\* the setter of Variable.name that leaves the entry under the old name
name_setter_copying(name) ==
    /\ nvar' =
          IF name # None
          THEN LET moved == IF Truthy(nvar.name) /\ nvar.name \in DOMAIN nvar.fields
                            THEN SetKey(nvar.fields, name, nvar.fields[nvar.name])
                            ELSE nvar.fields
               IN  [name |-> name,
                    fields |-> IF name \notin DOMAIN moved
                               THEN SetKey(moved, name, EmptyVariableMeta)
                               ELSE moved]
          ELSE [nvar EXCEPT !.name = name]
    /\ ncall' = NCall(nvar.name, name)

\* variable.name = name: the setter of Variable.name
name_setter(name) ==
    /\ nvar' =
          IF name # None
          THEN LET moved == IF Truthy(nvar.name) /\ nvar.name \in DOMAIN nvar.fields
                            THEN SetKey([k \in DOMAIN nvar.fields \ {nvar.name} |-> nvar.fields[k]],
                                        name, nvar.fields[nvar.name])
                            ELSE nvar.fields
               IN  [name |-> name,
                    fields |-> IF name \notin DOMAIN moved
                               THEN SetKey(moved, name, EmptyVariableMeta)
                               ELSE moved]
          ELSE [nvar EXCEPT !.name = name]
    /\ ncall' = NCall(nvar.name, name)

----------------------------------------------------------------------------
(* The inputs of the operations on Variables *)

OPERATIONS == {"+", "-", "*", "/", "//", "%", "**"}

Units == {None, <<"U", "S", "D">>, <<"c", "o", "u", "n", "t">>}

ShortUnits == {None, <<"$">>}

Titles == {None, <<"T">>}

Metas ==
    {VariableMeta(title, None, sources, unit, short_unit, None) :
        title \in Titles, sources \in {<<>>, <<"S">>},
        unit \in Units, short_unit \in ShortUnits}

\* metadata.processing_log = [] set on a VariableMeta by hand
Logged(metadata) == SetKey(metadata, "processing_log", <<>>)

VarIdle ==
    /\ operands = [A |-> Variable(col_a, EmptyVariableMeta), B |-> Variable(col_b, EmptyVariableMeta)]
    /\ vcall = VCall("init", NoVariable, "none", NoVariable)
    /\ UPDATE_PROCESSING_LOG = FALSE
    /\ column = NoVariable

\* two named Variables with any titles and units, as VariableMeta declares
\* them or with a processing_log set by hand on both
VarInit ==
    /\ operands \in {[A |-> Variable(col_a, ma), B |-> Variable(col_b, mb)] :
                        ma \in Metas, mb \in Metas}
                    \cup {[A |-> Variable(col_a, Logged(m)), B |-> Variable(col_b, Logged(m))] :
                            m \in {VariableMeta(title, None, <<>>, None, None, None) : title \in Titles}}
    /\ vcall = VCall("init", NoVariable, "none", NoVariable)
    /\ UPDATE_PROCESSING_LOG \in BOOLEAN
    /\ column = NoVariable

VarNext ==
    \/ \E op \in OPERATIONS \cup {"fillna"},
          other \in {operands.B, Scalar, Variable(None, EmptyVariableMeta)} :
          operate(op, other)
    \/ assign(col_x)

Names == {None, <<>>, col_a, col_b}

NameIdle ==
    /\ nvar = [name |-> None, fields |-> EmptyDict]
    /\ ncall = NCall(None, None)

\* Variable(data, name=name, _fields=fields): unnamed, or named with an entry
\* under its name, the mapping being that of a table or its own
NameInit ==
    /\ nvar \in {[name |-> None, fields |-> EmptyDict],
                 [name |-> col_a, fields |-> [k \in {col_a} |-> EmptyVariableMeta]],
                 [name |-> col_a, fields |-> [k \in {col_a} |-> described]],
                 [name |-> col_a,
                  fields |-> [k \in {col_a, col_b} |->
                                 IF k = col_a THEN described ELSE EmptyVariableMeta]]}
    /\ ncall = NCall(None, None)

NameNext == \E name \in Names : name_setter(name)

----------------------------------------------------------------------------
(* tables.py: Table.copy and Table.copy_metadata_from *)

\* the attributes of a VariableMeta whose values are lists or dicts
MutableAttrs == {"sources", "licenses", "display", "additional_info"}

\* the list metadata.primary_key of the TableMeta, which belongs to no column
PrimaryKeyList == <<None, "primary_key">>

PCall(op, result) == [op |-> op, result |-> result]

\* dataclasses.replace(v) followed by the rebuilding of sources: a new
\* VariableMeta whose other lists and dicts are those of v
SharedWith(fields, col) ==
    {<<col, attr>> : attr \in {a \in MutableAttrs \ {"sources"} : fields[col][a] # None}}

\* new_fields of copy_metadata_from, built over common_columns
NewFields(target, source) ==
    LET common_columns == Range(target.columns) \cap Range(source.columns)
        kept == {k \in common_columns : k \in DOMAIN source.fields \/ k \in DOMAIN target.fields}
    IN  [k \in kept |->
            IF k \in DOMAIN source.fields THEN source.fields[k] ELSE target.fields[k]]

\* the objects of new_fields that are the source's own
NewShared(target, source, before) ==
    LET common_columns == Range(target.columns) \cap Range(source.columns)
    IN  UNION {IF k \in DOMAIN source.fields
               THEN SharedWith(source.fields, k)
               ELSE {p \in before : p[1] = k} : k \in DOMAIN NewFields(target, source)}

\* target.copy_metadata_from(source, errors): the exception raised, if any,
\* and the target as the call leaves it
CopiedMetadata(target, source, errors) ==
    LET extra_columns   == Range(source.columns) \ Range(target.columns)
        missing_columns == Range(target.columns) \ Range(source.columns)
        replaced == [target EXCEPT
                       !.short_name = source.short_name, !.title = source.title,
                       !.dataset = source.dataset,
                       !.meta_primary_key = source.meta_primary_key]
    IN  IF errors = "raise" /\ (extra_columns # {} \/ missing_columns # {})
        THEN [result |-> "ValueError", table |-> replaced]
        ELSE [result |-> "ok",
              table |-> [replaced EXCEPT
                           !.fields = NewFields(target, source),
                           !.is_defaultdict = TRUE]]

\* target.copy_metadata_from(source, errors=errors)
copy_metadata_from(errors) ==
    LET r == CopiedMetadata(dst_t, src_t, errors)
    IN  /\ dst_t' = r.table
        /\ shared' = {PrimaryKeyList} \cup
                     (IF r.result = "ok" THEN NewShared(dst_t, src_t, shared)
                      ELSE shared \ {PrimaryKeyList})
        /\ origin' = "copy_metadata_from"
        /\ pcall' = PCall(<<"copy_metadata_from", errors>>, r.result)
        /\ UNCHANGED src_t

\* c = t.copy(): DataFrame.copy, then c.copy_metadata_from(t)
copy ==
    LET r == CopiedMetadata(src_t, src_t, "raise")
    IN  /\ dst_t' = r.table
        /\ shared' = {PrimaryKeyList} \cup NewShared(src_t, src_t, {})
        /\ origin' = "copy"
        /\ pcall' = PCall(<<"copy">>, r.result)
        /\ UNCHANGED src_t

\* list.append and dict.__setitem__ on the value of an attribute; of a dict
\* the model keeps the keys, in the order they were set
Mutated(attr, value) ==
    IF attr \in {"display", "additional_info"}
    THEN IF "x" \in Range(value) THEN value ELSE Append(value, "x")
    ELSE Append(value, "L")

MutatedField(t, col, attr) ==
    [t EXCEPT !.fields = SetKey(@, col, [Field(t, col) EXCEPT ![attr] = Mutated(attr, @)])]

\* dst_t[col].metadata.<attr> changed in place (append to a list, a key set
\* in a dict): the object changes for every table that holds it
mutate_in_place(col, attr) ==
    /\ col \in Range(dst_t.columns)
    /\ Field(dst_t, col)[attr] # None
    /\ dst_t' = MutatedField(dst_t, col, attr)
    /\ src_t' = IF <<col, attr>> \in shared THEN MutatedField(src_t, col, attr) ELSE src_t
    /\ pcall' = PCall(<<"mutate_in_place", col, attr>>, "ok")
    /\ UNCHANGED <<shared, origin>>

\* dst_t[col].metadata.title = title: the attribute of dst_t's own
\* VariableMeta is bound to a new value
set_title(col, title) ==
    /\ col \in Range(dst_t.columns)
    /\ dst_t' = [dst_t EXCEPT !.fields = SetKey(@, col, [Field(dst_t, col) EXCEPT !.title = title])]
    /\ pcall' = PCall(<<"set_title", col>>, "ok")
    /\ UNCHANGED <<src_t, shared, origin>>

\* dst_t.metadata.title = title
set_table_title(title) ==
    /\ dst_t' = [dst_t EXCEPT !.title = title]
    /\ pcall' = PCall(<<"set_table_title">>, "ok")
    /\ UNCHANGED <<src_t, shared, origin>>

\* dst_t.metadata.primary_key.append(name)
append_primary_key(name) ==
    /\ dst_t' = [dst_t EXCEPT !.meta_primary_key = Append(@, name)]
    /\ src_t' = IF PrimaryKeyList \in shared
                THEN [src_t EXCEPT !.meta_primary_key = Append(@, name)]
                ELSE src_t
    /\ pcall' = PCall(<<"append_primary_key">>, "ok")
    /\ UNCHANGED <<shared, origin>>

----------------------------------------------------------------------------
(* The inputs of the copies *)

MaxAppends == 1

\* how many times a list was appended to
Appended(value) == Cardinality({i \in DOMAIN value : value[i] = "L"})

licensed == VariableMeta(None, <<"A">>, <<"S">>, None, None, EmptyDict)

\* tables with the columns a and b, with and without an index level k
Sources ==
    {TableObj(<<"s">>, <<"T">>, NoDataset, <<>>, <<col_a, col_b>>,
              [col \in {col_a, col_b} |-> "int"], index_names, fields, TRUE) :
        index_names \in {<<None>>, <<idx_k>>},
        fields \in {[col \in {col_a} |-> described],
                    [col \in {col_a, idx_k} |-> IF col = col_a THEN licensed ELSE described]}}

\* tables with the columns a and b, or a and x
Targets ==
    {TableObj(<<"t">>, None, NoDataset, <<>>, columns,
              [col \in Range(columns) |-> "int"], <<None>>, fields, TRUE) :
        columns \in {<<col_a, col_b>>, <<col_a, col_x>>},
        fields \in {EmptyDict, [col \in {col_x} |-> described]}}

CopyIdle ==
    /\ src_t = NewTable(None, <<None>>, "str", EmptyDict)
    /\ dst_t = NewTable(None, <<None>>, "str", EmptyDict)
    /\ shared = {}
    /\ origin = "init"
    /\ pcall = PCall(<<"init">>, "ok")

CopyInit ==
    /\ src_t \in Sources
    /\ dst_t \in Targets
    /\ shared = {}
    /\ origin = "init"
    /\ pcall = PCall(<<"init">>, "ok")

CopyNext ==
    \/ copy
    \/ \E errors \in {"raise", "ignore", "warn"} : copy_metadata_from(errors)
    \/ \E col \in {col_a, col_x}, attr \in {"sources", "licenses", "display"} :
          /\ attr # "display" => Appended(Field(dst_t, col)[attr]) < MaxAppends
          /\ mutate_in_place(col, attr)
    \/ \E col \in {col_a} : set_title(col, <<"N">>)
    \/ set_table_title(<<"N">>)
    \/ Len(dst_t.meta_primary_key) < MaxAppends /\ append_primary_key(col_a)

----------------------------------------------------------------------------
(* catalogs.py: the LocalCatalog, its walk over the folders and its index *)

INDEX_FORMATS == <<"feather", "parquet">>

\* self.path, the folder of the catalog
CatalogPath == <<"/", "r">>

\* str(dir) of a folder given by its parts below self.path
RECURSIVE StrOf(_)
StrOf(dir) ==
    IF dir = <<>> THEN CatalogPath
    ELSE StrOf(SubSeq(dir, 1, Len(dir) - 1)) \o <<"/">> \o dir[Len(dir)]

\* relative_path.as_posix() of a table of the dataset in dir
RECURSIVE PosixOf(_)
PosixOf(dir) ==
    IF Len(dir) = 1 THEN dir[1]
    ELSE PosixOf(SubSeq(dir, 1, Len(dir) - 1)) \o <<"/">> \o dir[Len(dir)]

\* Path.__lt__, which heapq uses: the parts are compared one by one
PathLess(p, q) ==
    \/ \E i \in 1..Min(Len(p), Len(q)) :
          /\ \A j \in 1..(i - 1) : p[j] = q[j]
          /\ StrLess(p[i], q[i])
    \/ /\ Len(p) < Len(q)
       /\ \A j \in 1..Len(p) : p[j] = q[j]

\* (dir / "index.json").exists()
HasIndex(tr, dir) == tr[dir].index_json

\* dir.iterdir(), the children that are folders
Children(tr, dir) ==
    {child \in DOMAIN tr : Len(child) = Len(dir) + 1 /\ SubSeq(child, 1, Len(dir)) = dir}

\* re.compile(include or "").search(s), for an include without special
\* characters
re_search(include, s) == Contains(s, IF Truthy(include) THEN include ELSE <<>>)

\* the loop of iter_datasets that yields a folder with index.json only when
\* the filter matches it and descends into every other folder
RECURSIVE WhileToSearch(_, _, _)
WhileToSearch(tr, to_search, include) ==
    IF to_search = {} THEN [yielded |-> <<>>, descended |-> {}]
    ELSE LET dir == CHOOSE d \in to_search : \A e \in to_search \ {d} : PathLess(d, e)
         IN  IF HasIndex(tr, dir) /\ re_search(include, StrOf(dir))
             THEN LET rest == WhileToSearch(tr, to_search \ {dir}, include)
                  IN  [rest EXCEPT !.yielded = <<dir>> \o rest.yielded]
             ELSE LET rest == WhileToSearch(tr, (to_search \ {dir}) \cup Children(tr, dir), include)
                  IN  [rest EXCEPT !.descended = rest.descended \cup {dir}]

\* LocalCatalog.iter_datasets(channel, include): the folders of the datasets
\* it yields, in order, and the folders whose children it pushed
iter_datasets(tr, channel, include) ==
    IF <<channel>> \notin DOMAIN tr
    THEN [yielded |-> <<>>, descended |-> {}]
    ELSE WhileToSearch(tr, {<<channel>>}, include)

\* the walk of every channel in turn
RECURSIVE Walk(_, _, _)
Walk(tr, chs, include) ==
    IF chs = <<>> THEN [yielded |-> <<>>, descended |-> {}]
    ELSE LET first == iter_datasets(tr, Head(chs), include)
             rest == Walk(tr, Tail(chs), include)
         IN  [yielded |-> first.yielded \o rest.yielded,
              descended |-> first.descended \cup rest.descended]

\* the tables of a dataset folder in the order of its sorted *.meta.json
RECURSIVE SortedNames(_)
SortedNames(S) ==
    IF S = {} THEN <<>>
    ELSE LET least == CHOOSE x \in S : \A y \in S \ {x} : StrLess(x, y)
         IN  <<least>> \o SortedNames(S \ {least})

\* Dataset(dir).index(self.path) of a dataset whose tables are stored in
\* feather: one row per table
DatasetIndex(tr, dir) ==
    LET names == SortedNames(tr[dir].tables)
    IN  [i \in DOMAIN names |->
            Row(names[i], <<"n">>, <<"1">>, dir[Len(dir)], dir[1], "feather", TRUE,
                PosixOf(dir) \o <<"/">> \o names[i])]

\* pd.concat(frames, ignore_index=True)
RECURSIVE ConcatFrames(_, _)
ConcatFrames(tr, dirs) ==
    IF dirs = <<>> THEN <<>>
    ELSE DatasetIndex(tr, Head(dirs)) \o ConcatFrames(tr, Tail(dirs))

SortKeys == <<"table", "dataset", "version", "namespace", "channel", "is_public">>

\* the order of sort_values(keys) on two rows
RowLess(r, s) ==
    \E i \in DOMAIN SortKeys :
        /\ \A j \in 1..(i - 1) : r[SortKeys[j]] = s[SortKeys[j]]
        /\ IF SortKeys[i] = "is_public" THEN ~r.is_public /\ s.is_public
           ELSE StrLess(r[SortKeys[i]], s[SortKeys[i]])

\* rows with row put after the last element that is not greater by the keys
RECURSIVE InsertByKeys(_, _)
InsertByKeys(rows, row) ==
    IF rows = <<>> THEN <<row>>
    ELSE IF RowLess(row, rows[Len(rows)])
         THEN InsertByKeys(SubSeq(rows, 1, Len(rows) - 1), row) \o <<rows[Len(rows)]>>
         ELSE rows \o <<row>>

\* df.sort_values(keys), a short frame being sorted by insertion
RECURSIVE sort_values_by_keys(_)
sort_values_by_keys(rows) ==
    IF rows = <<>> THEN <<>>
    ELSE InsertByKeys(sort_values_by_keys(SubSeq(rows, 1, Len(rows) - 1)), rows[Len(rows)])

\* LocalCatalog._scan_for_datasets(include): pd.concat raises ValueError on an
\* empty list of frames, and sort_values raises KeyError on a frame made of
\* datasets without tables, which has no column
_scan_for_datasets(tr, chs, include) ==
    LET walk == Walk(tr, chs, include)
        df == ConcatFrames(tr, walk.yielded)
    IN  IF walk.yielded = <<>> THEN [raised |-> "ValueError", rows |-> <<>>, walk |-> walk]
        ELSE IF df = <<>> THEN [raised |-> "KeyError", rows |-> <<>>, walk |-> walk]
        ELSE [raised |-> "none", rows |-> sort_values_by_keys(df), walk |-> walk]

PathsOf(rows) == {rows[i].path : i \in DOMAIN rows}

\* _merge_index that keeps every row of the previous index
_merge_index_keeping_all(previous, update) ==
    update \o previous

\* LocalCatalog._merge_index(frame, update)
_merge_index(previous, update) ==
    update \o SelectSeq(previous, LAMBDA row : row.path \notin PathsOf(update))

ChannelFrame(rows, channel) == SelectSeq(rows, LAMBDA row : row.channel = channel)

\* the index files after LocalCatalog._save_index(frame)
SavedIndex(fs, chs, rows) ==
    [name \in DOMAIN fs \cup {<<chs[i], INDEX_FORMATS[j]>> : i \in DOMAIN chs, j \in DOMAIN INDEX_FORMATS} |->
        IF name[1] \in Range(chs) THEN ChannelFrame(rows, name[1]) ELSE fs[name]]

\* _catalog_exists that is content with the index of one channel
_catalog_exists_any(fs, chs) ==
    \E i \in DOMAIN chs : <<chs[i], "feather">> \in DOMAIN fs

\* LocalCatalog._catalog_exists(channels)
_catalog_exists(fs, chs) ==
    \A i \in DOMAIN chs : <<chs[i], "feather">> \in DOMAIN fs

\* pd.read_feather raises FileNotFoundError for a file that is not there
read_feather_raises(fs, chs) ==
    \E i \in DOMAIN chs : <<chs[i], "feather">> \notin DOMAIN fs

\* LocalCatalog._read_channels(channels)
RECURSIVE _read_channels(_, _)
_read_channels(fs, chs) ==
    IF chs = <<>> THEN <<>>
    ELSE fs[<<Head(chs), "feather">>] \o _read_channels(fs, Tail(chs))

NoLocalCatalog == [made |-> FALSE, channels |-> <<>>, frame |-> <<>>]

LocalCatalog(chs, rows) == [made |-> TRUE, channels |-> chs, frame |-> rows]

KCall(op, chs, include, result, walk) ==
    [op |-> op, channels |-> chs, include |-> include, result |-> result,
     walked |-> walk # <<>>,
     yielded |-> IF walk = <<>> THEN <<>> ELSE walk[1].yielded,
     descended |-> IF walk = <<>> THEN {} ELSE walk[1].descended]

\* the body of reindex: the scan, the merge for an include that is truthy,
\* then _save_index and self.frame = index
Reindex(op, chs, previous, include) ==
    \E scan \in {_scan_for_datasets(tree, chs, include)} :
    \E index_ \in {IF Truthy(include) THEN _merge_index(previous, scan.rows) ELSE scan.rows} :
        /\ kcall' = KCall(op, chs, include,
                           IF scan.raised = "none" THEN "ok" ELSE scan.raised, <<scan.walk>>)
        /\ IF scan.raised = "none"
           THEN /\ index_files' = SavedIndex(index_files, chs, index_)
                /\ catalog_meta' = <<[format_version |-> OWID_CATALOG_VERSION]>>
                /\ local' = LocalCatalog(chs, index_)
                /\ changed' = changed \ Range(scan.walk.yielded)
           ELSE UNCHANGED <<index_files, catalog_meta, local, changed>>
        /\ UNCHANGED <<tree, changes>>

\* LocalCatalog(path, channels)
construct(chs) ==
    IF _catalog_exists(index_files, chs)
    THEN IF read_feather_raises(index_files, chs)
         THEN /\ kcall' = KCall("construct", chs, None, "FileNotFoundError", <<>>)
              /\ UNCHANGED <<tree, index_files, catalog_meta, local, changed, changes>>
         ELSE /\ local' = LocalCatalog(chs, _read_channels(index_files, chs))
              /\ kcall' = KCall("construct", chs, None, "ok", <<>>)
              /\ UNCHANGED <<tree, index_files, catalog_meta, changed, changes>>
    ELSE Reindex("construct", chs, <<>>, None)

\* catalog.reindex(include)
reindex(include) ==
    /\ local.made
    /\ Reindex("reindex", local.channels, local.frame, include)

\* a table is added to a dataset on disk: Dataset(dir).add(table)
add_table(dir, name) ==
    /\ HasIndex(tree, dir)
    /\ name \notin tree[dir].tables
    /\ tree' = [tree EXCEPT ![dir].tables = @ \cup {name}]
    /\ changed' = changed \cup {dir}
    /\ changes' = changes + 1
    /\ kcall' = KCall("add_table", <<>>, None, "ok", <<>>)
    /\ UNCHANGED <<index_files, catalog_meta, local>>

\* the files of a table are removed from a dataset on disk
remove_table(dir, name) ==
    /\ HasIndex(tree, dir)
    /\ name \in tree[dir].tables
    /\ tree' = [tree EXCEPT ![dir].tables = @ \ {name}]
    /\ changed' = changed \cup {dir}
    /\ changes' = changes + 1
    /\ kcall' = KCall("remove_table", <<>>, None, "ok", <<>>)
    /\ UNCHANGED <<index_files, catalog_meta, local>>

----------------------------------------------------------------------------
(* The inputs of the local catalog *)

MaxChanges == 1

Folder(index_json, tables) == [index_json |-> index_json, tables |-> tables]

dir_b == <<garden, <<"b">>>>
dir_bc == <<garden, <<"b">>, <<"c">>>>
dir_k == <<garden, <<"k">>>>
dir_mc == <<meadow, <<"c">>>>

TableNames == {<<"t">>, <<"u">>}

\* the channel garden with the folders b, b/c and k, and the channel meadow,
\* when there is one, with the folder c; a folder with index.json is a dataset
Trees ==
    {[dir \in {<<garden>>, dir_b, dir_bc, dir_k} \cup m |->
         IF dir = dir_b THEN b
         ELSE IF dir = dir_bc THEN bc
         ELSE IF dir = dir_k THEN k
         ELSE IF dir = dir_mc THEN Folder(TRUE, {<<"t">>})
         ELSE Folder(FALSE, {})] :
        b \in {Folder(FALSE, {}), Folder(TRUE, {<<"u">>})},
        bc \in {Folder(FALSE, {}), Folder(TRUE, {<<"t">>})},
        k \in {Folder(TRUE, {<<"t">>, <<"u">>})},
        m \in {{}, {<<meadow>>, dir_mc}}}

Includes == {None, <<>>, <<"c">>, <<"z">>}

Channels == {<<garden>>, <<garden, meadow>>}

LocalIdle ==
    /\ tree = [dir \in {<<garden>>} |-> Folder(FALSE, {})]
    /\ index_files = EmptyDict
    /\ catalog_meta = <<>>
    /\ local = NoLocalCatalog
    /\ changed = {}
    /\ changes = 0
    /\ kcall = KCall("init", <<>>, None, "ok", <<>>)

\* a catalog folder that was never indexed
LocalInit ==
    /\ tree \in Trees
    /\ index_files = EmptyDict
    /\ catalog_meta = <<>>
    /\ local = NoLocalCatalog
    /\ changed = {}
    /\ changes = 0
    /\ kcall = KCall("init", <<>>, None, "ok", <<>>)

LocalNext ==
    \/ \E chs \in Channels : construct(chs)
    \/ \E include \in Includes : reindex(include)
    \/ \E dir \in DOMAIN tree, name \in TableNames : changes < MaxChanges /\ add_table(dir, name)
    \/ \E dir \in DOMAIN tree, name \in TableNames : changes < MaxChanges /\ remove_table(dir, name)

----------------------------------------------------------------------------
(* Specifications *)

\* the dataset directory alone: no catalog is built over it
DsOnlyInit ==
    /\ DsInit
    /\ CatIdle
    /\ RemoteIdle
    /\ LoadIdle
    /\ TabIdle
    /\ VarIdle
    /\ NameIdle
    /\ CopyIdle
    /\ LocalIdle

NamingNext ==
    /\ DsNext(NamingMetas, NamingTables, NamingFormats)
    /\ UNCHANGED <<catVars, remoteVars, loadVars, tabVars, varVars, nameVars, copyVars, localVars>>

DirNext ==
    /\ DsNext(DirMetas, DirTables, DirFormats)
    /\ UNCHANGED <<catVars, remoteVars, loadVars, tabVars, varVars, nameVars, copyVars, localVars>>

SpecNaming == DsOnlyInit /\ [][NamingNext]_vars

SpecDir == DsOnlyInit /\ [][DirNext]_vars

\* searches over a catalog whose index is loaded
CatalogInit ==
    /\ CatInit
    /\ DsIdle
    /\ RemoteIdle
    /\ LoadIdle
    /\ TabIdle
    /\ VarIdle
    /\ NameIdle
    /\ CopyIdle
    /\ LocalIdle

CatalogNext ==
    /\ CatNext
    /\ UNCHANGED <<dsVars, remoteVars, loadVars, tabVars, varVars, nameVars, copyVars, localVars>>

SpecCatalog == CatalogInit /\ [][CatalogNext]_vars

\* module-level finds against the published catalog
CachedInit ==
    /\ RemoteInit
    /\ DsIdle
    /\ CatIdle
    /\ LoadIdle
    /\ TabIdle
    /\ VarIdle
    /\ NameIdle
    /\ CopyIdle
    /\ LocalIdle

CachedNext ==
    /\ RemoteNext
    /\ UNCHANGED <<dsVars, catVars, loadVars, tabVars, varVars, nameVars, copyVars, localVars>>

SpecRemote == CachedInit /\ [][CachedNext]_vars

\* loads of single index rows
LoadInit ==
    /\ LoadIdle
    /\ DsIdle
    /\ CatIdle
    /\ RemoteIdle
    /\ TabIdle
    /\ VarIdle
    /\ NameIdle
    /\ CopyIdle
    /\ LocalIdle

LoadingNext ==
    /\ LoadNext
    /\ UNCHANGED <<dsVars, catVars, remoteVars, tabVars, varVars, nameVars, copyVars, localVars>>

SpecLoad == LoadInit /\ [][LoadingNext]_vars

\* a table in memory whose columns are assigned, indexed, renamed and pruned
TableInit ==
    /\ ColumnsInit
    /\ DsIdle
    /\ CatIdle
    /\ RemoteIdle
    /\ LoadIdle
    /\ VarIdle
    /\ NameIdle
    /\ CopyIdle
    /\ LocalIdle

TableNext ==
    /\ ColumnsNext
    /\ UNCHANGED <<dsVars, catVars, remoteVars, loadVars, varVars, nameVars, copyVars, localVars>>

SpecTable == TableInit /\ [][TableNext]_vars

\* a table saved in each format and loaded again
SavedInit ==
    /\ RoundTripInit
    /\ DsIdle
    /\ CatIdle
    /\ RemoteIdle
    /\ LoadIdle
    /\ VarIdle
    /\ NameIdle
    /\ CopyIdle
    /\ LocalIdle

SavedNext ==
    /\ RoundTripNext
    /\ UNCHANGED <<dsVars, catVars, remoteVars, loadVars, varVars, nameVars, copyVars, localVars>>

SpecRoundTrip == SavedInit /\ [][SavedNext]_vars

\* arithmetic on two Variables
OperandsInit ==
    /\ VarInit
    /\ DsIdle
    /\ CatIdle
    /\ RemoteIdle
    /\ LoadIdle
    /\ TabIdle
    /\ NameIdle
    /\ CopyIdle
    /\ LocalIdle

ArithmeticNext ==
    /\ VarNext
    /\ UNCHANGED <<dsVars, catVars, remoteVars, loadVars, tabVars, nameVars, copyVars, localVars>>

SpecVariables == OperandsInit /\ [][ArithmeticNext]_vars

\* a Variable that is named again and again
NamedInit ==
    /\ NameInit
    /\ DsIdle
    /\ CatIdle
    /\ RemoteIdle
    /\ LoadIdle
    /\ TabIdle
    /\ VarIdle
    /\ CopyIdle
    /\ LocalIdle

NamingOfVariableNext ==
    /\ NameNext
    /\ UNCHANGED <<dsVars, catVars, remoteVars, loadVars, tabVars, varVars, copyVars, localVars>>

SpecName == NamedInit /\ [][NamingOfVariableNext]_vars

\* a table copied, or given the metadata of another, and then changed
CopiedInit ==
    /\ CopyInit
    /\ DsIdle
    /\ CatIdle
    /\ RemoteIdle
    /\ LoadIdle
    /\ TabIdle
    /\ VarIdle
    /\ NameIdle
    /\ LocalIdle

CopyingNext ==
    /\ CopyNext
    /\ UNCHANGED <<dsVars, catVars, remoteVars, loadVars, tabVars, varVars, nameVars, localVars>>

SpecCopy == CopiedInit /\ [][CopyingNext]_vars

\* a catalog folder that is indexed, changed and indexed again
FolderInit ==
    /\ LocalInit
    /\ DsIdle
    /\ CatIdle
    /\ RemoteIdle
    /\ LoadIdle
    /\ TabIdle
    /\ VarIdle
    /\ NameIdle
    /\ CopyIdle

IndexingNext ==
    /\ LocalNext
    /\ UNCHANGED <<dsVars, catVars, remoteVars, loadVars, tabVars, varVars, nameVars, copyVars>>

SpecLocal == FolderInit /\ [][IndexingNext]_vars

----------------------------------------------------------------------------
(* The dataset directory: claims *)

\* snake_case as the specification defines it: lowercase ASCII letters,
\* digits and underscores, starting with a letter or an underscore.
IsSnakeCase(name) ==
    /\ Len(name) >= 1
    /\ name[1] \in LowerChars \cup {"_"}
    /\ \A i \in 2..Len(name) : name[i] \in LowerChars \cup DigitChars \cup {"_"}

\* the table has a name (short_name, column or index name) that is set and
\* is not snake_case
HasNonSnakeName(t) ==
    \E name \in {t.short_name} \cup Range(t.columns) \cup Range(t.index_names) :
        name # None /\ ~IsSnakeCase(name)

Sidecars(fs) == {f \in DOMAIN fs : IsSidecar(f)}

DataNames(fs) == {f \in DOMAIN fs : IsDataFile(f)}

\* C1: Dataset.add(table) raises NameError whenever the table's short_name, a
\* data column name or an index name is not snake_case, and then no file of
\* the directory is created or changed and the table's dataset back-reference
\* is not stamped.
C1_AddRejectsNonSnakeCase ==
    [][(call'.op = "add" /\ HasNonSnakeName(call'.table)) =>
          /\ call'.result = "NameError"
          /\ files' = files
          /\ exists' = exists
          /\ call'.table.dataset = NoDataset]_vars

\* What add does guarantee: when it raises NameError, no file is created or
\* changed and the table is not stamped.
AddNameErrorWritesNothing ==
    [][(call'.op = "add" /\ call'.result = "NameError") =>
          /\ files' = files
          /\ exists' = exists
          /\ call'.table.dataset = NoDataset]_vars

\* C2: create_empty on an existing directory without index.json (an empty
\* directory included) fails and leaves the directory and every file in it
\* as they were.
C2_CreateEmptyRefusesNonDataset ==
    [][(call'.op = "create_empty" /\ exists /\ IndexFile \notin DOMAIN files) =>
          /\ call'.result = "Exception"
          /\ exists' = exists
          /\ files' = files
          /\ ds' = ds]_vars

C2_Witness ==
    /\ call.op = "create_empty"
    /\ call.result = "Exception"
    /\ StrayFile \in DOMAIN files

\* C3: Dataset.save() fails when the dataset's short_name is unset or not
\* snake_case, leaving index.json and every sidecar unchanged; when only the
\* namespace is unset it warns and still completes the write.
C3_SaveRejectsBadShortName ==
    [][call'.op = "save" =>
          /\ ~IsSnakeCase(ds.metadata.short_name) =>
                (call'.result # "ok" /\ files' = files)
          /\ (IsSnakeCase(ds.metadata.short_name) /\ ~Truthy(ds.metadata.namespace)) =>
                /\ call'.result = "ok"
                /\ call'.warned
                /\ files'[IndexFile] = ToDict(ds.metadata)]_vars

\* What save does guarantee: a save that fails writes nothing, and a save
\* with the namespace unset warns and writes index.json.
SaveFailureWritesNothing ==
    [][call'.op = "save" =>
          /\ call'.result # "ok" => files' = files
          /\ call'.result = "ok" =>
                /\ call'.warned <=> ~Truthy(ds.metadata.namespace)
                /\ files'[IndexFile] = ToDict(ds.metadata)]_vars

\* C4: after a successful save, every *.meta.json sidecar embeds a dataset
\* record equal to the DatasetMeta just written to index.json, and every
\* other key of each sidecar is unchanged.
C4_SaveSyncsSidecars ==
    [][(call'.op = "save" /\ call'.result = "ok") =>
          /\ files'[IndexFile] = ToDict(ds.metadata)
          /\ DOMAIN files' = DOMAIN files
          /\ \A f \in Sidecars(files') :
                /\ "dataset" \in DOMAIN files'[f]
                /\ files'[f]["dataset"] = files'[IndexFile]
                /\ DOMAIN files'[f] = DOMAIN files[f] \cup {"dataset"}
                /\ \A k \in DOMAIN files[f] \ {"dataset"} :
                      files'[f][k] = files[f][k]]_vars

C4_Witness ==
    /\ call.op = "save"
    /\ call.result = "ok"
    /\ Cardinality(Sidecars(files)) >= 2

\* C5: checksum() is determined by index.json and, per data file in sorted
\* order, the data file and its sidecar; adding a table, or a second format
\* of an existing table, changes the checksum.
C5_AddChangesChecksum ==
    [][(call'.op = "add" /\ call'.result = "ok"
            /\ DataNames(files') # DataNames(files)) =>
          /\ ChecksumDefined(files')
          /\ ChecksumDefined(files) => Checksum(files') # Checksum(files)]_vars

\* What checksum does guarantee: where every data file has its sidecar, an
\* add that brings a new data file changes the checksum.
AddChangesDefinedChecksum ==
    [][(call'.op = "add" /\ call'.result = "ok"
            /\ DataNames(files') # DataNames(files)
            /\ ChecksumDefined(files) /\ ChecksumDefined(files')) =>
          Checksum(files') # Checksum(files)]_vars

----------------------------------------------------------------------------
(* The catalog search: claims *)

\* the row satisfies every predicate that was supplied (is not None): the
\* table name holds the argument, the other fields equal theirs
SatisfiesSupplied(args, row) ==
    /\ args.table # None => Contains(row.table, args.table)
    /\ args.namespace # None => row.namespace = args.namespace
    /\ args.version # None => row.version = args.version
    /\ args.dataset # None => row.dataset = args.dataset
    /\ args.channel # None => row.channel = args.channel

\* the same, an empty string counting as not supplied
SatisfiesNonEmpty(args, row) ==
    /\ args.table \notin {None, <<>>} => Contains(row.table, args.table)
    /\ args.namespace \notin {None, <<>>} => row.namespace = args.namespace
    /\ args.version \notin {None, <<>>} => row.version = args.version
    /\ args.dataset \notin {None, <<>>} => row.dataset = args.dataset
    /\ args.channel \notin {None, <<>>} => row.channel = args.channel

\* the rows of the index, in order and without their checksum column, that
\* satisfy every non-empty predicate
Matching(args) ==
    DropChecksum(SelectSeq(frame, LAMBDA row : SatisfiesNonEmpty(args, row)))

\* C6 as stated: find returns exactly the rows that satisfy every supplied
\* predicate (table: substring, the others: equality), and every row when no
\* predicate is supplied.
C6_FindReturnsSupplied ==
    ccall.op = "find" =>
        /\ ccall.result = "ok"
        /\ ccall.rows =
              DropChecksum(SelectSeq(frame, LAMBDA row : SatisfiesSupplied(ccall.args, row)))

\* C6 as amended: find raises when a channel is supplied that is not among
\* the loaded channels; otherwise it returns exactly the rows that satisfy
\* every predicate supplied as a non-empty string.
C6_FindReturnsMatching ==
    ccall.op = "find" =>
        IF ccall.args.channel \notin {None, <<>>} /\ ccall.args.channel \notin channels
        THEN ccall.result = "ValueError" /\ ccall.rows = <<>>
        ELSE ccall.result = "ok" /\ ccall.rows = Matching(ccall.args)

C6_Witness ==
    /\ ccall.op = "find"
    /\ ccall.result = "ok"
    /\ ccall.args.table # None
    /\ ccall.args.namespace \notin {None, <<>>}
    /\ Len(ccall.rows) >= 1
    /\ Len(ccall.rows) < Len(frame)

\* C7: find_one loads and returns a table if and only if exactly one index
\* row matches; with no row or several rows matching it raises and reads no
\* table file.
C7_FindOneNeedsExactlyOne ==
    ccall.op = "find_one" =>
        /\ ccall.result = "ok" <=> Len(Matching(ccall.args)) = 1
        /\ Len(Matching(ccall.args)) = 1 => ccall.loaded = Matching(ccall.args)
        /\ Len(Matching(ccall.args)) # 1 =>
              ccall.result = "ValueError" /\ ccall.loaded = <<>>

C7_Witness ==
    /\ ccall.op = "find_one"
    /\ ccall.result = "ValueError"
    /\ Len(Matching(ccall.args)) >= 2

\* C8: find_latest raises when no row matches; otherwise it raises no
\* ambiguity error and loads a matching row whose version is greater than or
\* equal to the version of every other matching row.
C8_FindLatestLoadsGreatestVersion ==
    ccall.op = "find_latest" =>
        IF Matching(ccall.args) = <<>>
        THEN ccall.result = "ValueError" /\ ccall.loaded = <<>>
        ELSE /\ ccall.result = "ok"
             /\ Len(ccall.loaded) = 1
             /\ ccall.loaded[1] \in Range(Matching(ccall.args))
             /\ \A row \in Range(Matching(ccall.args)) :
                   ~StrLess(ccall.loaded[1].version, row.version)

C8_Witness ==
    /\ ccall.op = "find_latest"
    /\ ccall.result = "ok"
    /\ \E row \in Range(Matching(ccall.args)) :
          StrLess(row.version, ccall.loaded[1].version)

----------------------------------------------------------------------------
(* The remote catalog: claims *)

IsChannelFile(file) == file # MetadataFile

\* C9: a construction that read a format_version greater than the supported
\* one raises PackageUpdateRequired having read no channel index, and leaves
\* no catalog behind; a channel index is only ever read by a construction
\* whose version check has passed.
C9_VersionCheckPrecedesIndexRead ==
    [][/\ (pc = "check_version" /\ pc' # pc /\ VersionTooNew(cur.obj.metadata)) =>
             /\ rcall'.result = "PackageUpdateRequired"
             /\ \A i \in 1..Len(rcall'.reads) : ~IsChannelFile(rcall'.reads[i])
             /\ pc' = "idle"
             /\ REMOTE_CATALOG' = REMOTE_CATALOG
       /\ (pc = "read_channels" \/ REMOTE_CATALOG' # REMOTE_CATALOG) =>
             /\ cur.obj.metadata # NoMetadata
             /\ cur.obj.metadata.format_version <= OWID_CATALOG_VERSION
       /\ (reads' # reads /\ reads' # <<>> /\ IsChannelFile(reads'[Len(reads')])) =>
             /\ reads[1] = MetadataFile
             /\ cur.obj.metadata.format_version <= OWID_CATALOG_VERSION]_vars

C9_Witness ==
    /\ rcall.result = "PackageUpdateRequired"
    /\ rcall.reads = <<MetadataFile>>
    /\ REMOTE_CATALOG # NoCatalog

\* C10: the cached catalog covers every channel requested by the calls that
\* returned; the cache is replaced only by a call that requests a channel
\* outside the cached set, and then by a catalog of the union; a call whose
\* channels are all cached fetches nothing and leaves the cache as it is.
C10_CacheCoversRequested ==
    /\ [](requested \subseteq CachedChannels(REMOTE_CATALOG))
    /\ [][/\ REMOTE_CATALOG' # REMOTE_CATALOG =>
                /\ ~(Range(cur.channels) \subseteq CachedChannels(REMOTE_CATALOG))
                /\ CachedChannels(REMOTE_CATALOG') =
                      CachedChannels(REMOTE_CATALOG) \cup Range(cur.channels)
          /\ (pc = "idle" /\ pc' # "idle" /\ REMOTE_CATALOG # NoCatalog
                /\ Range(cur'.channels) \subseteq CachedChannels(REMOTE_CATALOG)) =>
                pc' = "find" /\ reads' = <<>>
          /\ (pc = "find" /\ pc' = "idle") =>
                /\ rcall'.result = "ok"
                /\ REMOTE_CATALOG' = REMOTE_CATALOG
                /\ (Range(cur.channels) \subseteq CachedChannels(REMOTE_CATALOG))]_vars

C10_Witness ==
    /\ rcall.result = "ok"
    /\ rcall.reads = <<>>
    /\ requested = {garden, meadow}
    /\ Len(REMOTE_CATALOG.channels) = 2

----------------------------------------------------------------------------
(* Loading a catalog row: claims *)

\* C11: whenever a load has returned or raised, its temporary directory no
\* longer exists; and when deserialization of a non-public row starts, both
\* the sidecar and the data file are in that directory.
C11_TmpdirRemovedOnEveryExit ==
    /\ [](ld.pc = "idle" => ~tmpdir.exists /\ tmpdir.files = {})
    /\ [][/\ lcall' # lcall => ~tmpdir'.exists
          /\ (ld'.deserialized /\ ~ld.deserialized /\ ~ld.series.is_public) =>
                /\ tmpdir.exists
                /\ {StagedSidecar, StagedData(ld.series.format)} \subseteq tmpdir.files]_vars

C11_Witness ==
    /\ ld.pc = "idle"
    /\ lcall.result = "ReadError"
    /\ ~lcall.series.is_public
    /\ lcall.deserialized
    /\ ~tmpdir.exists

----------------------------------------------------------------------------
(* Tables: claims *)

\* the data of a table: its columns, its index and the kind of values of each
DataOf(t) ==
    [columns |-> t.columns, index |-> primary_key(t),
     kinds |-> [col \in Range(all_columns(t)) |-> KindOf(t, col)]]

\* the metadata mapping over the current columns
FieldsOf(t) == [col \in Range(all_columns(t)) |-> Field(t, col)]

\* C12: loading what a save wrote yields the same data, an equal TableMeta,
\* the same primary key as index and an equal metadata mapping over the
\* current columns, in every format.
C12_RoundTripIsIdentity ==
    (tcall.op = "round_trip" /\ tcall.result = "ok") =>
        /\ DataOf(tcall.loaded) = DataOf(tab)
        /\ TableMetaOf(tcall.loaded) = TableMetaOf(tab)
        /\ primary_key(tcall.loaded) = primary_key(tab)
        /\ FieldsOf(tcall.loaded) = FieldsOf(tab)

\* The round trip is the identity on a table whose TableMeta.primary_key
\* names its index, whose metadata has no empty dict, and, in csv, whose text
\* columns do not read as numbers.
RoundTripOfPlainTables ==
    (/\ tcall.op = "round_trip" /\ tcall.result = "ok"
     /\ tab.meta_primary_key = primary_key(tab)
     /\ \A col \in DOMAIN tab.fields : tab.fields[col].display # EmptyDict
     /\ tcall.file.format = "csv" => \A col \in Range(all_columns(tab)) : KindOf(tab, col) # "digits") =>
        /\ DataOf(tcall.loaded) = DataOf(tab)
        /\ TableMetaOf(tcall.loaded) = TableMetaOf(tab)
        /\ primary_key(tcall.loaded) = primary_key(tab)
        /\ FieldsOf(tcall.loaded) = FieldsOf(tab)

\* C13: after rename with a column mapping, every new name of a current
\* column or index level is a name of the table and carries the metadata the
\* old name had, and the old name has no entry left.
C13_RenameCarriesMetadata ==
    [][\A mapper \in Mappers : rename(mapper) =>
          /\ tcall'.result = "ok"
          /\ \A old \in DOMAIN mapper \cap Range(all_columns(tab)) :
                /\ mapper[old] \in Range(all_columns(tab'))
                /\ Field(tab', mapper[old]) = Field(tab, old)
                /\ old \notin Range(all_columns(tab')) => old \notin DOMAIN tab'.fields]_vars

\* The same for the data columns alone, when no new name is already taken.
RenameCarriesColumnMetadata ==
    [][\A mapper \in Mappers :
          (/\ rename(mapper)
           /\ tcall'.result = "ok"
           /\ \A old \in DOMAIN mapper \cap Range(tab.columns) :
                 mapper[old] \in DOMAIN mapper \/ mapper[old] \notin Range(all_columns(tab))) =>
          \A old \in DOMAIN mapper \cap Range(tab.columns) :
                /\ mapper[old] \in Range(tab'.columns)
                /\ Field(tab', mapper[old]) = Field(tab, old)
                /\ old \notin Range(all_columns(tab')) => old \notin DOMAIN tab'.fields]_vars

\* C15: after table[k] = value the metadata of k is the value's own when the
\* value is an annotated variable and fresh empty metadata otherwise, and the
\* entry of every other column is as it was.
C15_SetitemSetsMetadata ==
    [][\A key \in {col_a, col_x}, value \in Values : setitem(key, value) =>
          /\ tcall'.result = "ok"
          /\ key \in DOMAIN tab'.fields
          /\ tab'.fields[key] =
                IF value.type = "Variable" THEN value.metadata ELSE EmptyVariableMeta
          /\ \A col \in (DOMAIN tab.fields \cup DOMAIN tab'.fields) \ {key} :
                /\ col \in DOMAIN tab.fields /\ col \in DOMAIN tab'.fields
                /\ tab'.fields[col] = tab.fields[col]]_vars

\* The same for the values that are not unnamed variables.
SetitemOfNamedValues ==
    [][\A key \in {col_a, col_x}, value \in Values :
          (setitem(key, value) /\ value.type # "unnamed Variable") =>
          /\ tcall'.result = "ok"
          /\ tab'.fields[key] =
                IF value.type = "Variable" THEN value.metadata ELSE EmptyVariableMeta
          /\ \A col \in (DOMAIN tab.fields \cup DOMAIN tab'.fields) \ {key} :
                /\ col \in DOMAIN tab.fields /\ col \in DOMAIN tab'.fields
                /\ tab'.fields[col] = tab.fields[col]]_vars

\* the fields mapping and the primary key a save wrote
WrittenFields(file) ==
    IF file.format = "parquet" THEN file.owid_fields ELSE file.sidecar["fields"]

WrittenPrimaryKey(file) ==
    IF file.format = "parquet" THEN file.primary_key ELSE file.sidecar["primary_key"]

\* C16: a save that is not refused for its index names writes a fields
\* mapping with exactly one entry per current column name and a primary_key
\* equal to the current index names.
C16_SavedFieldsCoverColumns ==
    (tcall.op = "round_trip" /\ tcall.result # "ValueError") =>
        /\ tcall.result = "ok"
        /\ DOMAIN WrittenFields(tcall.file) = Range(all_columns(tab))
        /\ WrittenPrimaryKey(tcall.file) = primary_key(tab)

\* Every save that succeeds writes such a mapping and primary key.
CompletedSaveCoversColumns ==
    (tcall.op = "round_trip" /\ tcall.result = "ok") =>
        /\ DOMAIN WrittenFields(tcall.file) = Range(all_columns(tab))
        /\ WrittenPrimaryKey(tcall.file) = primary_key(tab)

\* the TableMeta dict a save wrote
WrittenTableMeta(file) ==
    IF file.format = "parquet" THEN file.owid_table ELSE file.sidecar

----------------------------------------------------------------------------
(* Variables: claims *)

\* the Variables among the operands of the last operation
OperandsOf(c) == SelectSeq(<<operands.A, c.other>>, IsVariable)

\* what the claim has for the unit of the result: the common value of the
\* Variables for + and -, None when they differ and for every other operation
StatedUnit(c, attr) ==
    IF /\ c.op \in {"+", "-"}
       /\ \A i, j \in DOMAIN OperandsOf(c) :
             OperandsOf(c)[i].metadata[attr] = OperandsOf(c)[j].metadata[attr]
    THEN operands.A.metadata[attr]
    ELSE None

\* C14: A op B and A op scalar, for named Variables A and B, yield a Variable
\* whose unit and short_unit are the operands' common value for + and - and
\* None when they differ and for *, /, //, % and **.
C14_UnitsOfResult ==
    (vcall.op # "init" /\ ~checked_name_raises(vcall.other)) =>
        /\ vcall.raised = "none"
        /\ vcall.variable.metadata.unit = StatedUnit(vcall, "unit")
        /\ vcall.variable.metadata.short_unit = StatedUnit(vcall, "short_unit")

\* The functions that combine the units compute what is stated.
UnitsCombineAsStated ==
    (vcall.op # "init" /\ ~checked_name_raises(vcall.other)) =>
        /\ combine_variables_units(OperandsOf(vcall), vcall.op) = StatedUnit(vcall, "unit")
        /\ combine_variables_short_units(OperandsOf(vcall), vcall.op) = StatedUnit(vcall, "short_unit")

\* No operation on a Variable whose metadata is as VariableMeta declares it
\* returns.
OperationsRaise ==
    (vcall.op # "init" /\ ~HasAttr(operands.A.metadata, "processing_log")) =>
        vcall.raised # "none"

----------------------------------------------------------------------------
(* The dataset directory: contents, listing and lookup *)

\* C18: a dataset made by create_empty, add and save holds index.json and,
\* for every data file <short_name>.<ext>, the sidecar <short_name>.meta.json.
C18_EveryDataFileHasSidecar ==
    ds.open =>
        /\ IndexFile \in DOMAIN files
        /\ \A f \in DOMAIN files :
              IsDataFile(f) => FileName(f.stem, "meta.json") \in DOMAIN files

\* Every feather and csv file has its sidecar.
FeatherAndCsvHaveSidecars ==
    ds.open =>
        \A f \in DOMAIN files :
            f.ext \in {"feather", "csv"} => FileName(f.stem, "meta.json") \in DOMAIN files

\* the tables of the rows of an index
RowTables(rows) == {rows[i]["table"] : i \in DOMAIN rows}

\* C19: Dataset.index returns exactly one row per table short_name that has
\* a data file, in whatever formats, and the format of the row is that of an
\* existing file of the table.
C19_IndexHasOneRowPerTable ==
    ds.open =>
        /\ index(files).raised = "none"
        /\ RowTables(index(files).rows) = table_names(files)
        /\ Len(index(files).rows) = Cardinality(table_names(files))
        /\ \A i \in DOMAIN index(files).rows :
              /\ "format" \in DOMAIN index(files).rows[i]
              /\ FileName(index(files).rows[i]["table"], index(files).rows[i]["format"])
                    \in DOMAIN files

\* The same where every data file has its sidecar.
IndexOfDirectoriesWithSidecars ==
    (ds.open /\ ChecksumDefined(files)) =>
        /\ index(files).raised = "none"
        /\ RowTables(index(files).rows) = table_names(files)
        /\ Len(index(files).rows) = Cardinality(table_names(files))
        /\ \A i \in DOMAIN index(files).rows :
              /\ "format" \in DOMAIN index(files).rows[i]
              /\ FileName(index(files).rows[i]["table"], index(files).rows[i]["format"])
                    \in DOMAIN files

\* the names looked up: the tables added and one that never is
LookupNames == {t.short_name : t \in DirTables} \cup {<<"x">>}

LookupOrder == <<"feather", "parquet", "csv">>

\* C20: name in dataset is true exactly when dataset[name] finds a file, and
\* the file found is that of the first format in the order feather, parquet,
\* csv that exists.
C20_ContainsIffLookupFinds ==
    ds.open =>
        \A name \in LookupNames :
            /\ __contains__(files, name) <=> __getitem__(files, name) # "KeyError"
            /\ \A i \in DOMAIN LookupOrder :
                  (/\ FileName(name, LookupOrder[i]) \in DOMAIN files
                   /\ \A j \in 1..(i - 1) : FileName(name, LookupOrder[j]) \notin DOMAIN files) =>
                  __getitem__(files, name) = LookupOrder[i]

\* The lookup alone: it finds a file exactly when one of the three exists,
\* the first in the order, and whatever the containment check finds it finds.
LookupFindsFirstFormat ==
    ds.open =>
        \A name \in LookupNames :
            /\ __contains__(files, name) => __getitem__(files, name) # "KeyError"
            /\ __getitem__(files, name) = "KeyError" <=>
                  \A i \in DOMAIN LookupOrder : FileName(name, LookupOrder[i]) \notin DOMAIN files
            /\ \A i \in DOMAIN LookupOrder :
                  (/\ FileName(name, LookupOrder[i]) \in DOMAIN files
                   /\ \A j \in 1..(i - 1) : FileName(name, LookupOrder[j]) \notin DOMAIN files) =>
                  __getitem__(files, name) = LookupOrder[i]

----------------------------------------------------------------------------
(* Dataset.add over several formats: claims *)

\* C29: an add whose list of formats holds an unsupported format fails and
\* leaves the directory without any file it did not hold before, the files
\* of the supported formats that precede the unsupported one included.
C29_AddIsAllOrNothing ==
    [][\A t \in DirTables, formats \in DirFormats :
          (add(t, formats) /\ \E i \in DOMAIN formats : formats[i] \notin ALLOWED_FORMATS) =>
          /\ call'.result # "ok"
          /\ files' = files]_vars

\* Such an add does fail, and it writes nothing when the unsupported format
\* comes first in the list.
AddOfUnsupportedFormatFails ==
    [][\A t \in DirTables, formats \in DirFormats :
          (add(t, formats) /\ \E i \in DOMAIN formats : formats[i] \notin ALLOWED_FORMATS) =>
          /\ call'.result # "ok"
          /\ formats[1] \notin ALLOWED_FORMATS => files' = files]_vars

----------------------------------------------------------------------------
(* Variables: names, titles and the processing log *)

\* C24 as stated: naming a Variable new (not None) whose old name has an
\* entry in the mapping leaves that record under new and, for old # new, no
\* entry under old; a new name without an entry gets an empty one; naming it
\* None changes no entry.
C24_NameMovesMetadata ==
    [][\A new \in Names : name_setter(new) =>
          /\ new = None => nvar'.fields = nvar.fields
          /\ (new # None /\ nvar.name \in DOMAIN nvar.fields) =>
                /\ nvar'.fields[new] = nvar.fields[nvar.name]
                /\ nvar.name # new => nvar.name \notin DOMAIN nvar'.fields
          /\ (new # None /\ nvar.name \notin DOMAIN nvar.fields /\ new \notin DOMAIN nvar.fields) =>
                nvar'.fields[new] = EmptyVariableMeta]_vars

\* C24 as amended: the same for an old name that is not the empty string; a
\* Variable named "" counts as unnamed, its entry stays where it is and the
\* new name gets an empty entry unless it has one; no other entry changes.
C24_NonEmptyNameMovesMetadata ==
    [][\A new \in Names : name_setter(new) =>
          /\ nvar'.name = new
          /\ new = None => nvar'.fields = nvar.fields
          /\ (new # None /\ Truthy(nvar.name) /\ nvar.name \in DOMAIN nvar.fields) =>
                /\ nvar'.fields[new] = nvar.fields[nvar.name]
                /\ nvar.name # new => nvar.name \notin DOMAIN nvar'.fields
                /\ \A k \in DOMAIN nvar.fields \ {nvar.name, new} :
                      k \in DOMAIN nvar'.fields /\ nvar'.fields[k] = nvar.fields[k]
          /\ (new # None /\ ~(Truthy(nvar.name) /\ nvar.name \in DOMAIN nvar.fields)) =>
                /\ nvar'.fields[new] =
                      IF new \in DOMAIN nvar.fields THEN nvar.fields[new] ELSE EmptyVariableMeta
                /\ \A k \in DOMAIN nvar.fields :
                      k \in DOMAIN nvar'.fields /\ nvar'.fields[k] = nvar.fields[k]]_vars

C24_Witness ==
    /\ ncall.old = col_a
    /\ nvar.name = col_b
    /\ col_a \notin DOMAIN nvar.fields
    /\ nvar.fields[col_b] = described

\* what the claim has for the title of the result: the common value of the
\* Variables among the operands, None when they differ
StatedTitle(c, attr) ==
    IF \A i, j \in DOMAIN OperandsOf(c) :
          OperandsOf(c)[i].metadata[attr] = OperandsOf(c)[j].metadata[attr]
    THEN operands.A.metadata[attr]
    ELSE None

\* C25: every arithmetic operation and fillna on named Variables yields a
\* Variable whose title and description are the common value of the operands
\* that carry metadata, and None when they differ.
C25_TitleOfResult ==
    (vcall.op # "init" /\ ~checked_name_raises(vcall.other)) =>
        /\ vcall.raised = "none"
        /\ vcall.variable.metadata.title = StatedTitle(vcall, "title")
        /\ vcall.variable.metadata.description = StatedTitle(vcall, "description")

\* The function that combines the titles computes what is stated for +, -
\* and fillna, and None for every other operation.
TitlesCombineForSumsOnly ==
    (vcall.op # "init" /\ ~checked_name_raises(vcall.other)) =>
        _combine_variables_titles_and_descriptions(OperandsOf(vcall), vcall.op, "title") =
            IF vcall.op \in {"+", "-", "fillna"} THEN StatedTitle(vcall, "title") ELSE None

\* Operations return only on operands that were given a processing_log by
\* hand.
OperationsReturnOnLoggedOperandsOnly ==
    (vcall.op # "init" /\ vcall.raised = "none") =>
        HasAttr(operands.A.metadata, "processing_log")

\* an entry of the log names n as its variable or among its parents
Mentions(log, n) ==
    \E i \in DOMAIN log : log[i].variable = n \/ \E j \in DOMAIN log[i].parents : log[i].parents[j] = n

\* C26: the result of an operation carries the placeholder name; the column
\* it is assigned to is named by its key, and with the switch on no entry of
\* the column's processing log mentions the placeholder.
C26_PlaceholderReplacedInColumn ==
    /\ (vcall.op # "init" /\ ~checked_name_raises(vcall.other)) =>
          /\ vcall.raised = "none"
          /\ vcall.variable.name = UNNAMED_VARIABLE
    /\ column # NoVariable =>
          /\ column.name = col_x
          /\ UPDATE_PROCESSING_LOG =>
                ~Mentions(column.metadata["processing_log"], UNNAMED_VARIABLE)

\* The column is named by its key, and with the switch on its log does
\* mention the placeholder: the assignment replaces nothing.
AssignedLogKeepsPlaceholder ==
    column # NoVariable =>
        /\ column.name = col_x
        /\ UPDATE_PROCESSING_LOG =>
              Mentions(column.metadata["processing_log"], UNNAMED_VARIABLE)

\* update_variable_name, were it called on the result, would leave no
\* mention of the placeholder.
UpdateVariableNameReplaces ==
    vcall.variable # NoVariable =>
        /\ update_variable_name(vcall.variable, col_x).name = col_x
        /\ ~Mentions(update_variable_name(vcall.variable, col_x).metadata["processing_log"],
                     UNNAMED_VARIABLE)

----------------------------------------------------------------------------
(* Table.copy and Table.copy_metadata_from: claims *)

\* C27: after c = t.copy(), c has for every column of t, data column or
\* primary-key column, metadata equal to t's, and no later change of c's table
\* metadata or of a field of c's column metadata, list-valued and
\* mapping-valued fields included, changes the metadata of t.
C27_CopyIsIndependent ==
    [][/\ (pcall'.op = <<"copy">>) =>
             \A col \in Range(all_columns(src_t)) : Field(dst_t', col) = Field(src_t, col)
       /\ (origin = "copy" /\ origin' = "copy" /\ pcall'.op # <<"copy">>) =>
             src_t' = src_t]_vars

\* what holds of a copy: the metadata of the data columns is equal, and t is
\* left alone by every change of the copy but one made in place on licenses,
\* display or the primary_key list
CopyCarriesDataColumns ==
    [][/\ (pcall'.op = <<"copy">>) =>
             /\ pcall'.result = "ok"
             /\ \A col \in Range(src_t.columns) : Field(dst_t', col) = Field(src_t, col)
             /\ \A col \in Range(src_t.index_names) : col \notin DOMAIN dst_t'.fields
       /\ (origin = "copy" /\ origin' = "copy" /\ src_t' # src_t) =>
             \/ pcall'.op = <<"append_primary_key">>
             \/ \E col \in Range(src_t.columns) : 
                   pcall'.op \in {<<"mutate_in_place", col, "licenses">>,
                                  <<"mutate_in_place", col, "display">>}]_vars

\* C28: target.copy_metadata_from(source) in a mode that is not strict leaves
\* every column of the target alone with the metadata it had and gives every
\* common column metadata equal to the source's; in strict mode it fails when
\* the column sets differ.
C28_TargetOnlyColumnsKeepMetadata ==
    [][\A errors \in {"raise", "ignore", "warn"} :
          (pcall'.op = <<"copy_metadata_from", errors>>) =>
             IF errors = "raise" /\ Range(src_t.columns) # Range(dst_t.columns)
             THEN pcall'.result = "ValueError"
             ELSE /\ pcall'.result = "ok"
                  /\ \A col \in Range(dst_t.columns) \ Range(src_t.columns) :
                        Field(dst_t', col) = Field(dst_t, col)
                  /\ \A col \in Range(dst_t.columns) \cap Range(src_t.columns) :
                        Field(dst_t', col) = Field(src_t, col)]_vars

\* what holds of copy_metadata_from: strict mode fails on differing column
\* sets, with the table metadata already replaced; otherwise a common column
\* gets the source's entry when the source has one and keeps its own when not,
\* and no column of the target alone keeps an entry
CopyMetadataOverCommonColumns ==
    [][\A errors \in {"raise", "ignore", "warn"} :
          (pcall'.op = <<"copy_metadata_from", errors>>) =>
             /\ dst_t'.title = src_t.title
             /\ IF errors = "raise" /\ Range(src_t.columns) # Range(dst_t.columns)
                THEN pcall'.result = "ValueError" /\ dst_t'.fields = dst_t.fields
                ELSE /\ pcall'.result = "ok"
                     /\ \A col \in Range(dst_t.columns) \ Range(src_t.columns) :
                           col \notin DOMAIN dst_t'.fields
                     /\ \A col \in Range(dst_t.columns) \cap Range(src_t.columns) :
                           Field(dst_t', col) = IF col \in DOMAIN src_t.fields THEN Field(src_t, col)
                                                ELSE Field(dst_t, col)]_vars

----------------------------------------------------------------------------
(* The local catalog: the walk, the index files and the merge *)

\* dir lies below the folder above
Below(dir, above) ==
    Len(above) < Len(dir) /\ SubSeq(dir, 1, Len(above)) = above

\* C21: the walk never descends into a folder that holds index.json, whatever
\* the include filter and also when the filter does not match the folder; it
\* descends into every folder without index.json that it reaches, and it
\* yields no dataset twice.
C21_WalkStopsAtDatasets ==
    [][(kcall' # kcall /\ kcall'.walked) =>
          /\ \A dir \in kcall'.descended : ~HasIndex(tree, dir)
          /\ \A dir \in DOMAIN tree :
                (/\ dir[1] \in Range(kcall'.channels)
                 /\ ~HasIndex(tree, dir)
                 /\ \A above \in DOMAIN tree : Below(dir, above) => ~HasIndex(tree, above))
                => dir \in kcall'.descended
          /\ \A i, j \in DOMAIN kcall'.yielded :
                kcall'.yielded[i] = kcall'.yielded[j] => i = j]_vars

\* what holds of the walk: the folders it descends into are those it reaches
\* that have no index.json or are not matched by the filter, so that without a
\* filter it stops at every dataset; it yields the matched datasets it
\* reaches, each once
WalkDescendsIntoUnmatched ==
    [][(kcall' # kcall /\ kcall'.walked) =>
          /\ \A dir \in kcall'.descended :
                ~(HasIndex(tree, dir) /\ re_search(kcall'.include, StrOf(dir)))
          /\ ~Truthy(kcall'.include) =>
                \A dir \in kcall'.descended : ~HasIndex(tree, dir)
          /\ \A dir \in Range(kcall'.yielded) :
                HasIndex(tree, dir) /\ re_search(kcall'.include, StrOf(dir))
          /\ \A i, j \in DOMAIN kcall'.yielded :
                kcall'.yielded[i] = kcall'.yielded[j] => i = j]_vars

\* C22: a construction walks the folders exactly when the index file of some
\* configured channel is absent; a construction or reindex that succeeded
\* leaves catalog-<channel>.<format> for every configured channel and every
\* index format, and catalog.meta.json with the format_version; a construction
\* that follows, over the same channels, loads the same rows without walking.
C22_ConstructionWalksIffIndexAbsent ==
    [][/\ (kcall'.op = "construct") =>
             (kcall'.walked <=>
                 \E i \in DOMAIN kcall'.channels :
                     <<kcall'.channels[i], "feather">> \notin DOMAIN index_files)
       /\ (kcall'.op \in {"construct", "reindex"} /\ kcall'.result = "ok") =>
             /\ \A i \in DOMAIN kcall'.channels, j \in DOMAIN INDEX_FORMATS :
                   <<kcall'.channels[i], INDEX_FORMATS[j]>> \in DOMAIN index_files'
             /\ catalog_meta' = <<[format_version |-> OWID_CATALOG_VERSION]>>
       /\ (/\ kcall.op \in {"construct", "reindex"} /\ kcall.result = "ok"
           /\ kcall'.op = "construct" /\ kcall'.channels = kcall.channels) =>
             /\ ~kcall'.walked
             /\ kcall'.result = "ok"
             /\ Len(local'.frame) = Len(local.frame)
             /\ Range(local'.frame) = Range(local.frame)]_vars

\* a construction over two channels that loaded the index an earlier
\* construction had saved
C22_Witness ==
    /\ kcall.op = "construct"
    /\ kcall.channels = <<garden, meadow>>
    /\ ~kcall.walked
    /\ kcall.result = "ok"
    /\ Len(local.frame) >= 2

\* the rows a walk has made: those of the tables of the datasets it yielded
Fresh(tr, yielded) == UNION {Range(DatasetIndex(tr, yielded[i])) : i \in DOMAIN yielded}

PathsIn(rows) == {row.path : row \in rows}

UniquePaths(rows) == \A i, j \in DOMAIN rows : rows[i].path = rows[j].path => i = j

\* the new index is the merge of the previous one and the fresh rows
Merged(previous, fresh, new) ==
    /\ \A row \in fresh : row \in Range(new)
    /\ \A path \in PathsIn(fresh) : Cardinality({i \in DOMAIN new : new[i].path = path}) = 1
    /\ \A i \in DOMAIN previous :
          previous[i].path \notin PathsIn(fresh) => previous[i] \in Range(new)
    /\ \A i \in DOMAIN new : new[i] \in fresh \/ new[i] \in Range(previous)
    /\ UniquePaths(previous) => UniquePaths(new)

\* C23 as stated: after reindex(include=f) on a catalog with a previous index
\* the new index holds every freshly walked row, no previous row with the
\* path of a fresh row, and every previous row whose path was not freshly
\* walked, unchanged; paths stay unique.
C23_ReindexMergesWithPrevious ==
    [][(kcall'.op = "reindex" /\ kcall'.include # None) =>
          Merged(local.frame, Fresh(tree, kcall'.yielded), local'.frame)]_vars

\* C23 amended: the same for a filter that is not the empty string; with None
\* or the empty string the new index is made of the fresh rows alone.
C23_ReindexWithFilterMerges ==
    [][(kcall'.op = "reindex") =>
          IF Truthy(kcall'.include)
          THEN Merged(local.frame, Fresh(tree, kcall'.yielded), local'.frame)
          ELSE kcall'.result = "ok" =>
                  /\ Range(local'.frame) = Fresh(tree, kcall'.yielded)
                  /\ UniquePaths(local'.frame)]_vars

\* the table of a row is on disk
OnDisk(row) ==
    \E dir \in DOMAIN tree :
        /\ HasIndex(tree, dir)
        /\ \E name \in tree[dir].tables : row.path = PosixOf(dir) \o <<"/">> \o name

\* a reindex with the filter c that replaced the rows of the datasets it
\* walked and carried the rows of the others over, one of them of a table that
\* is no longer on disk
C23_Witness ==
    /\ kcall.op = "reindex"
    /\ kcall.include = <<"c">>
    /\ kcall.result = "ok"
    /\ Fresh(tree, kcall.yielded) # {}
    /\ \E i \in DOMAIN local.frame :
          local.frame[i] \notin Fresh(tree, kcall.yielded) /\ ~OnDisk(local.frame[i])

\* C30: when only datasets that f matches changed on disk, reindex(include=f)
\* leaves the rows of a full reindex, in the same sorted order, and no row of
\* a table that was removed.
C30_FilteredReindexEqualsFull ==
    [][(/\ kcall'.op = "reindex" /\ kcall'.result = "ok"
        /\ \A dir \in changed : re_search(kcall'.include, StrOf(dir))) =>
          /\ local'.frame = _scan_for_datasets(tree, local.channels, None).rows
          /\ \A i \in DOMAIN local'.frame : OnDisk(local'.frame[i])]_vars

\* what holds of a reindex: without a filter the index is the sorted rows of
\* the walk; with a filter it is the sorted rows of the walk followed by the
\* rows carried over, in the order they had
FilteredReindexPutsFreshRowsFirst ==
    [][(kcall'.op = "reindex" /\ kcall'.result = "ok") =>
          LET fresh == Fresh(tree, kcall'.yielded)
              n == Cardinality(fresh)
          IN  /\ Len(local'.frame) >= n
              /\ SubSeq(local'.frame, 1, n) = _scan_for_datasets(tree, local.channels, kcall'.include).rows
              /\ Range(SubSeq(local'.frame, 1, n)) = fresh
              /\ ~Truthy(kcall'.include) => Len(local'.frame) = n
              /\ Truthy(kcall'.include) =>
                    SubSeq(local'.frame, n + 1, Len(local'.frame)) =
                        SelectSeq(local.frame, LAMBDA row : row.path \notin PathsIn(fresh))]_vars

\* a filtered reindex, made after the one change on disk it covers, that left
\* the row of a removed table in the index
StaleRowAfterFilteredReindex ==
    /\ kcall.op = "reindex"
    /\ kcall.result = "ok"
    /\ Truthy(kcall.include)
    /\ changed = {}
    /\ \E i \in DOMAIN local.frame : ~OnDisk(local.frame[i])

====
